---------------------------- MODULE Spec2Model ----------------------------
(***************************************************************************)
(* Zero-trust API gateway: the request pipeline                            *)
(*   validate -> authenticate -> rbac -> rate-limit -> reverse proxy,      *)
(* wrapped by the audit middleware, with the hash-chained audit logger,    *)
(* the hot-reloadable policy engine and the token-bucket rate limiter.     *)
(*                                                                         *)
(* Time is counted in ticks of 1/TicksPerSecond s and tokens in units of   *)
(* 1/TokenScale token, so that elapsed * refillPS is exact for all three   *)
(* refill rates (float64 rounding is not modelled).                        *)
(***************************************************************************)
EXTENDS Integers, Sequences, FiniteSets, TLC

(* ------------------------------ bounds -------------------------------- *)

NumThreads == 2
MaxLogCalls == 4
MaxFailures == 1
MaxRestarts == 1
MaxTime == 1
MaxEdits == 2
MaxMTime == 2
MaxRequests == 2
MaxReloadRequests == 1
MaxProbes == 22
MaxRefill == 2
MaxClock == 1
MaxRapid == 22
MaxUserServes == 43
MaxClockServes == 23
MaxFaultServes == 5
MaxSeconds == 2
MaxCalls == 3
MaxTamperCalls == 3
MaxEngineCalls == 3
MaxValidations == 1
MaxTwinServes == 3
MaxChargeServes == 46

Threads == 1..NumThreads
NoOwner == 0

VARIABLES
    now,          \* time.Now(): the wall clock, in ticks
    pc,           \* pc[t]: where request thread t is
    out,          \* out[t]: the request thread t serves and what became of it
    logArgs,      \* logArgs[t]: (method, path, decision, reason) passed to Log
    logEntry,     \* logEntry[t]: the Entry that Log is building
    written,      \* written[t]: entries the current call of thread t appended
    mu,           \* Logger.mu: NoOwner or the thread holding it
    lastHash,     \* Logger.lastHash
    auditFile,    \* the lines of ./audit.log
    logCalls,     \* number of Log calls made so far (all threads)
    failures,     \* number of failed writes so far
    restarts,     \* number of times a new Logger was opened on the existing file
    allowCount,   \* StatsCollector.allowCount
    denyCount,    \* StatsCollector.denyCount
    policyFile,   \* ./policies/policies.yaml: its content and modification time
    edits,        \* number of times the policy file was replaced
    policies,     \* Engine.policies
    loaded,       \* Engine.loaded
    mainpc,       \* where main() is
    rbacPolicies, \* the PolicySet that main() handed to RBACMiddleware
    wpc,          \* where the goroutine of Engine.Watch is
    lastMod,      \* lastMod of Engine.Watch
    wMod,         \* info.ModTime() of the last os.Stat of Engine.Watch
    limiter,      \* the Limiter: its two bucket maps
    fallbackBucket, \* the package-level fallback bucket
    arrivals,     \* number of requests received so far
    bkt,          \* a bucket used on its own
    bktNow,       \* the time readings handed to that bucket
    grants,       \* the readings at which that bucket allowed
    probe,        \* a middleware run on its own: stage, input and answer
    clk,          \* the reading of the Clock given to the limiter with SetClock
    served,       \* the limiter's handler run on its own: its last answer
    trail,        \* the answers of that handler so far, with the clock readings
    lmu,          \* Limiter.mu: NoOwner or the thread holding it
    call,         \* call[t]: the safeAllow call thread t is in
    tamper,       \* what was done to the audit file behind the logger's back
    emu,          \* Engine.mu: the thread holding it for writing, those reading
    snap,         \* snap[t]: the call into the Engine that thread t is in
    checked,      \* the validator run on its own: request, body, answer, body passed on
    twin          \* a second run of the limiter: its buckets, its wall clock, its answer

threadVars == <<pc, out>>
logLocals == <<logArgs, logEntry, written>>
loggerVars == <<mu, lastHash, auditFile, logCalls, failures, restarts>>
statsVars == <<allowCount, denyCount>>
fileVars == <<policyFile, edits>>
engineVars == <<policies, loaded>>
watchVars == <<wpc, lastMod, wMod>>
mainVars == <<mainpc, rbacPolicies>>
policyVars == <<fileVars, engineVars, watchVars, mainVars>>
limiterVars == <<limiter, fallbackBucket>>
limVars == <<clk, served, trail, lmu, call>>
engVars == <<emu, snap>>
unitVars == <<bkt, bktNow, grants, probe, limVars, tamper, engVars, checked, twin>>
gatewayVars == <<out, statsVars, policyVars, limiterVars, arrivals, unitVars>>
vars == <<now, threadVars, logLocals, loggerVars, statsVars, policyVars,
          limiterVars, arrivals, unitVars>>

(* --------------------------- strings ---------------------------------- *)

\* strings.HasPrefix(s, prefix)
HasPrefix(s, prefix) ==
    Len(prefix) <= Len(s) /\ SubSeq(s, 1, Len(prefix)) = prefix

\* strings.TrimSpace(s), for the white space " "
RECURSIVE TrimSpace(_)
TrimSpace(s) ==
    IF Len(s) = 0 THEN s
    ELSE IF SubSeq(s, 1, 1) = " " THEN TrimSpace(SubSeq(s, 2, Len(s)))
    ELSE IF SubSeq(s, Len(s), Len(s)) = " " THEN TrimSpace(SubSeq(s, 1, Len(s) - 1))
    ELSE s

\* index of the last ':' of s, 0 when there is none
RECURSIVE LastColon(_, _)
LastColon(s, i) ==
    IF i = 0 THEN 0
    ELSE IF SubSeq(s, i, i) = ":" THEN i
    ELSE LastColon(s, i - 1)

(* --------------------------- requests --------------------------------- *)

\* What the gateway reads of an http.Request.  Header values are "" when the
\* header is absent (http.Header.Get); BodySize is the number of bytes the
\* client sends, ContentLength what it declares (-1: unknown).
Req(method, path, ua, key, bearer, ctype, clen, size, addr) ==
    [Method |-> method, Path |-> path, UserAgent |-> ua, XAPIKey |-> key,
     Authorization |-> bearer, ContentType |-> ctype, ContentLength |-> clen, BodySize |-> size,
     RemoteAddr |-> addr]

\* auth.Identity; NoIdentity: the context carries none
NoIdentity == [Type |-> "", Subject |-> "", Roles |-> <<>>]

(* ------------------------ request validator --------------------------- *)

MaxRequestBodyBytes == 1048576
AllowedContentTypes == <<"application/json", "text/plain">>
RequiredHeaders == <<"User-Agent">>

\* r.Header.Get(h) for the headers the validator requires
HeaderGet(r, h) == IF h = "User-Agent" THEN r.UserAgent ELSE ""

isAllowedContentType(ct) ==
    IF ct = "" THEN FALSE
    ELSE \E i \in 1..Len(AllowedContentTypes) : HasPrefix(ct, AllowedContentTypes[i])

\* A request body: the bytes of head followed by fill zero bytes
\* (make([]byte, n) of the tests).
Body(head, fill) == [head |-> head, fill |-> fill]
NoBody == Body("", 0)
BodyLen(b) == Len(b.head) + b.fill

\* the first n bytes of a body
Truncated(b, n) ==
    IF n >= BodyLen(b) THEN b
    ELSE IF n >= Len(b.head) THEN Body(b.head, n - Len(b.head))
    ELSE Body(SubSeq(b.head, 1, n), 0)

\* a validator that reads the body and leaves the drained stream to next
Buffered_Drained(b) == [err |-> BodyLen(b) > MaxRequestBodyBytes, data |-> NoBody]

\* io.ReadAll(http.MaxBytesReader(w, r.Body, MaxRequestBodyBytes)): the bytes
\* read, and whether the reader met a byte beyond the cap
Buffered(b) ==
    [err |-> BodyLen(b) > MaxRequestBodyBytes,
     data |-> Truncated(b, MaxRequestBodyBytes)]

\* a validator that wants a Content-Type on every request
ValidateRequestMiddleware_AlwaysContentType(r) ==
    IF \E i \in 1..Len(RequiredHeaders) : TrimSpace(HeaderGet(r, RequiredHeaders[i])) = ""
    THEN [status |-> 400, msg |-> "missing required header"]
    ELSE IF ~isAllowedContentType(r.ContentType)
    THEN [status |-> 400, msg |-> "invalid Content-Type"]
    ELSE IF r.BodySize > MaxRequestBodyBytes
    THEN [status |-> 400, msg |-> "failed to read request body"]
    ELSE [status |-> 0, msg |-> ""]

\* ValidateRequestMiddleware: status 0 means next.ServeHTTP is called
ValidateRequestMiddleware(r) ==
    IF \E i \in 1..Len(RequiredHeaders) : TrimSpace(HeaderGet(r, RequiredHeaders[i])) = ""
    THEN [status |-> 400, msg |-> "missing required header"]
    ELSE IF r.ContentLength > 0 /\ ~isAllowedContentType(r.ContentType)
    THEN [status |-> 400, msg |-> "invalid Content-Type"]
    ELSE IF r.BodySize > MaxRequestBodyBytes
    THEN [status |-> 400, msg |-> "failed to read request body"]
    ELSE [status |-> 0, msg |-> ""]

(* ----------------------- API-key authenticator ------------------------ *)

AdminKey == "deef0admin0000000000000000000000000000000000000000000000000000"
UserKey == "deef0us3r0000000000000000000000000000000000000000000000000000"

\* NewDemoStore: key string -> APIKey record
DemoStore ==
    [k \in {AdminKey, UserKey} |->
        IF k = AdminKey THEN [ID |-> "demo-admin", Key |-> AdminKey, Roles |-> <<"admin">>]
        ELSE [ID |-> "demo-user", Key |-> UserKey, Roles |-> <<"user">>]]

\* an API-key authenticator without the health bypass
APIKeyMiddleware_NoHealthSkip(store, r, ctx) ==
    IF r.XAPIKey = "" THEN [status |-> 401, identity |-> ctx]
    ELSE IF r.XAPIKey \notin DOMAIN store THEN [status |-> 401, identity |-> ctx]
    ELSE IF store[r.XAPIKey].Key # r.XAPIKey THEN [status |-> 401, identity |-> ctx]
    ELSE [status |-> 0,
          identity |-> [Type |-> "api_key", Subject |-> store[r.XAPIKey].ID,
                        Roles |-> store[r.XAPIKey].Roles]]

\* an API-key authenticator that takes the store's word for the key
APIKeyMiddleware_TrustsLookup(store, r, ctx) ==
    IF r.Path = "/health" THEN [status |-> 0, identity |-> ctx]
    ELSE IF r.XAPIKey = "" THEN [status |-> 401, identity |-> ctx]
    ELSE IF r.XAPIKey \notin DOMAIN store THEN [status |-> 401, identity |-> ctx]
    ELSE [status |-> 0,
          identity |-> [Type |-> "api_key", Subject |-> store[r.XAPIKey].ID,
                        Roles |-> store[r.XAPIKey].Roles]]

\* APIKeyMiddleware(store): status 0 means next.ServeHTTP is called, with
\* the identity the request context then carries
APIKeyMiddleware(store, r, ctx) ==
    IF r.Path = "/health" THEN [status |-> 0, identity |-> ctx]
    ELSE IF r.XAPIKey = "" THEN [status |-> 401, identity |-> ctx]
    ELSE IF r.XAPIKey \notin DOMAIN store THEN [status |-> 401, identity |-> ctx]
    ELSE IF store[r.XAPIKey].Key # r.XAPIKey THEN [status |-> 401, identity |-> ctx]
    ELSE [status |-> 0,
          identity |-> [Type |-> "api_key", Subject |-> store[r.XAPIKey].ID,
                        Roles |-> store[r.XAPIKey].Roles]]

(* --------------------------- RBAC evaluator --------------------------- *)

hasAllowedRole(userRoles, allowedRoles) ==
    \E i \in 1..Len(userRoles), j \in 1..Len(allowedRoles) :
        userRoles[i] = allowedRoles[j]

\* an evaluator that lets an authenticated request through when no rule matches
RBACMiddleware_DefaultAllow(set, r, ctx) ==
    IF r.Path = "/health" THEN [status |-> 0]
    ELSE IF ctx = NoIdentity THEN [status |-> 403]
    ELSE [status |-> 0]

\* an evaluator that does not ask for an identity
RBACMiddleware_PassesAnonymous(set, r, ctx) ==
    IF r.Path = "/health" \/ ctx = NoIdentity THEN [status |-> 0]
    ELSE IF \E i \in 1..Len(set) :
                /\ r.Method = set[i].method
                /\ HasPrefix(r.Path, set[i].path)
                /\ hasAllowedRole(ctx.Roles, set[i].roles)
         THEN [status |-> 0]
    ELSE [status |-> 403]

\* an evaluator in which the first rule that matches method and path decides
RBACMiddleware_FirstMatchDecides(set, r, ctx) ==
    LET matching == { i \in 1..Len(set) :
                        r.Method = set[i].method /\ HasPrefix(r.Path, set[i].path) }
    IN IF r.Path = "/health" THEN [status |-> 0]
       ELSE IF ctx = NoIdentity \/ matching = {} THEN [status |-> 403]
       ELSE LET first == CHOOSE i \in matching : \A j \in matching : i <= j
            IN IF hasAllowedRole(ctx.Roles, set[first].roles) THEN [status |-> 0]
               ELSE [status |-> 403]

\* RBACMiddleware(policies): status 0 means next.ServeHTTP is called
RBACMiddleware(set, r, ctx) ==
    IF r.Path = "/health" THEN [status |-> 0]
    ELSE IF ctx = NoIdentity THEN [status |-> 403]
    ELSE IF \E i \in 1..Len(set) :
                /\ r.Method = set[i].method
                /\ HasPrefix(r.Path, set[i].path)
                /\ hasAllowedRole(ctx.Roles, set[i].roles)
         THEN [status |-> 0]
    ELSE [status |-> 403]

(* ------------------------- audit: hashing ----------------------------- *)

\* time.Time.Format(time.RFC3339Nano) of a UTC instant: whole seconds, then
\* the fraction without trailing zeros, then "Z" (the date part is fixed).
FormatTime(t) ==
    LET sec == t \div 5
        frac == (t % 5) * 2
    IN "T" \o ToString(sec) \o (IF frac = 0 THEN "" ELSE "." \o ToString(frac)) \o "Z"

\* time.Parse of what FormatTime rendered (json.Unmarshal of the timestamp).
ParseTime(s) == CHOOSE t \in 0..(MaxTime + 1) : FormatTime(t) = s

\* hex(SHA-256(bytes)): collision-free, a delimited block that no field holds.
SHA256(bytes) == "<" \o bytes \o ">"

computeHash(e) ==
    SHA256(FormatTime(e.Timestamp) \o e.Method \o e.Path \o e.Decision
           \o e.Reason \o e.PrevHash)

\* json.Marshal(entry): one line of the file.
Marshal(e) ==
    [kind |-> "entry", timestamp |-> FormatTime(e.Timestamp), method |-> e.Method,
     path |-> e.Path, decision |-> e.Decision, reason |-> e.Reason,
     prev_hash |-> e.PrevHash, hash |-> e.Hash]

\* json.Unmarshal(line, &e) of a line that parses.
Unmarshal(line) ==
    [Timestamp |-> ParseTime(line.timestamp), Method |-> line.method,
     Path |-> line.path, Decision |-> line.decision, Reason |-> line.reason,
     PrevHash |-> line.prev_hash, Hash |-> line.hash]

\* A write that failed part-way: bytes of a line without its newline.
TornLine == [kind |-> "torn"]

\* An empty line: json.Unmarshal fails on it.
BlankLine == [kind |-> "blank"]

\* {"corrupted":true}: a JSON object with none of Entry's fields; json.Unmarshal
\* accepts it and leaves the Entry zero.
ObjectLine == [kind |-> "object"]

\* file.Write(append(data, '\n')) on an O_APPEND file: bytes written after a
\* torn write join its line, which stays unparsable.
AppendLine(file, line) ==
    IF Len(file) > 0 /\ file[Len(file)].kind = "torn" THEN file
    ELSE Append(file, line)

(* ------------------------- audit: verifier ---------------------------- *)

RECURSIVE VerifyFrom(_, _, _)
VerifyFrom(file, i, prevHash) ==
    IF i > Len(file) THEN "ok"
    ELSE IF file[i].kind = "object"
         THEN IF prevHash # "" THEN "hash chain broken (prev hash mismatch)"
              ELSE "hash mismatch (entry tampered)"
    ELSE IF file[i].kind # "entry" THEN "invalid log entry format"
    ELSE LET e == Unmarshal(file[i])
         IN IF e.PrevHash # prevHash THEN "hash chain broken (prev hash mismatch)"
            ELSE IF e.Hash # computeHash(e) THEN "hash mismatch (entry tampered)"
            ELSE VerifyFrom(file, i + 1, e.Hash)

VerifyLogIntegrity(file) == VerifyFrom(file, 1, "")

(* ------------------------- audit: Logger.Log -------------------------- *)

NoArgs == [method |-> "", path |-> "", decision |-> "", reason |-> ""]
NoEntry == [Timestamp |-> 0, Method |-> "", Path |-> "", Decision |-> "",
            Reason |-> "", PrevHash |-> "", Hash |-> ""]

\* a Lock that never waits
MuAvailable_NoMutex(t) == TRUE

\* l.mu.Lock() can return
MuAvailable(t) == mu = NoOwner

\* l.mu.Lock()
LogLock(t) ==
    /\ pc[t] = "log_lock"
    /\ MuAvailable(t)
    /\ mu' = t
    /\ pc' = [pc EXCEPT ![t] = "log_build"]
    /\ UNCHANGED <<now, gatewayVars, logLocals, lastHash, auditFile, logCalls, failures, restarts>>

\* entry := Entry{..., PrevHash: l.lastHash}; entry.Hash = computeHash(entry)
LogBuild(t) ==
    /\ pc[t] = "log_build"
    /\ LET e == [Timestamp |-> now, Method |-> logArgs[t].method,
                 Path |-> logArgs[t].path, Decision |-> logArgs[t].decision,
                 Reason |-> logArgs[t].reason, PrevHash |-> lastHash, Hash |-> ""]
       IN logEntry' = [logEntry EXCEPT ![t] = [e EXCEPT !.Hash = computeHash(e)]]
    /\ pc' = [pc EXCEPT ![t] = "log_write"]
    /\ UNCHANGED <<now, gatewayVars, logArgs, written, loggerVars>>

\* l.file.Write succeeded: l.lastHash = entry.Hash
LogWriteOk(t) ==
    /\ pc[t] = "log_write"
    /\ auditFile' = AppendLine(auditFile, Marshal(logEntry[t]))
    /\ lastHash' = logEntry[t].Hash
    /\ written' = [written EXCEPT ![t] = @ + 1]
    /\ pc' = [pc EXCEPT ![t] = "log_ret"]
    /\ UNCHANGED <<now, gatewayVars, logArgs, logEntry, mu, logCalls, failures, restarts>>

\* a failed write after which lastHash is the hash of the entry that is missing
LogWriteFail_AdvancesHash(t) ==
    /\ pc[t] = "log_write"
    /\ failures < MaxFailures
    /\ failures' = failures + 1
    /\ lastHash' = logEntry[t].Hash
    /\ pc' = [pc EXCEPT ![t] = "log_ret"]
    /\ UNCHANGED <<now, gatewayVars, logLocals, mu, auditFile, logCalls, restarts>>

\* l.file.Write returned an error: nothing, or part of the line, reached the file
LogWriteFail(t) ==
    /\ pc[t] = "log_write"
    /\ failures < MaxFailures
    /\ failures' = failures + 1
    /\ \E torn \in BOOLEAN :
         auditFile' = IF torn THEN AppendLine(auditFile, TornLine) ELSE auditFile
    /\ pc' = [pc EXCEPT ![t] = "log_ret"]
    /\ UNCHANGED <<now, gatewayVars, logLocals, mu, lastHash, logCalls, restarts>>

\* deferred l.mu.Unlock(), Log returns
LogReturn(t) ==
    /\ pc[t] = "log_ret"
    /\ mu' = IF mu = t THEN NoOwner ELSE mu
    /\ logArgs' = [logArgs EXCEPT ![t] = NoArgs]
    /\ logEntry' = [logEntry EXCEPT ![t] = NoEntry]
    /\ pc' = [pc EXCEPT ![t] = "done"]
    /\ UNCHANGED <<now, gatewayVars, written, lastHash, auditFile, logCalls, failures, restarts>>

(* --------------------------- policy engine ---------------------------- *)

Rule(method, path, roles) == [method |-> method, path |-> path, roles |-> roles]

\* validatePolicyFile: "" when every rule is valid, else the first error
RECURSIVE validateFrom(_, _)
validateFrom(ps, i) ==
    IF i > Len(ps) THEN ""
    ELSE IF TrimSpace(ps[i].method) = "" THEN "method is required"
    ELSE IF TrimSpace(ps[i].path) = "" THEN "path is required"
    ELSE IF ~HasPrefix(ps[i].path, "/") THEN "path must start with '/'"
    ELSE IF Len(ps[i].roles) = 0 THEN "roles must not be empty"
    ELSE IF \E j \in 1..Len(ps[i].roles) : TrimSpace(ps[i].roles[j]) = ""
         THEN "role names must not be empty"
    ELSE validateFrom(ps, i + 1)

\* a validator that accepts a file without rules
validatePolicyFile_AllowsEmpty(ps) == validateFrom(ps, 1)

\* a validator that looks at the first rule only
validatePolicyFile_FirstRuleOnly(ps) ==
    IF Len(ps) = 0 THEN "policy file contains no policies"
    ELSE validateFrom(<<ps[1]>>, 1)

validatePolicyFile(ps) ==
    IF Len(ps) = 0 THEN "policy file contains no policies"
    ELSE validateFrom(ps, 1)

\* Engine.invalidate
Invalidated == [policies |-> <<>>, loaded |-> FALSE]

\* a failed load that leaves the engine's snapshot as it was
OnLoadError_KeepsSnapshot(err) == [policies |-> policies, loaded |-> loaded, err |-> err]

\* what a failed step of LoadFromFile leaves in the engine
OnLoadError(err) == [policies |-> Invalidated.policies, loaded |-> Invalidated.loaded, err |-> err]

\* Engine.LoadFromFile on the file as it is when it is read:
\* the engine's (policies, loaded) afterwards and the error returned
LoadFromFile(file) ==
    IF ~file.exists \/ ~file.readable THEN OnLoadError("failed to read policy file")
    ELSE IF ~file.yaml THEN OnLoadError("invalid YAML")
    ELSE IF validatePolicyFile(file.policies) # ""
         THEN OnLoadError(validatePolicyFile(file.policies))
    ELSE [policies |-> file.policies, loaded |-> TRUE, err |-> ""]

\* Engine.GetPolicies
GetPolicies == IF ~loaded THEN <<>> ELSE policies

\* the policy files of the README and of the tests, and broken ones
ReadmePolicies ==
    << Rule("GET", "/api/public", <<"user", "admin">>),
       Rule("POST", "/api/admin", <<"admin">>) >>
AdminOnlyPolicies ==
    << Rule("GET", "/api/public", <<"admin">>),
       Rule("POST", "/api/admin", <<"user">>) >>
InvalidPolicies ==
    << Rule("GET", "/api/public", <<"user">>), Rule("", "api", <<>>) >>

FileContents ==
    { [readable |-> TRUE, yaml |-> TRUE, policies |-> ReadmePolicies],
      [readable |-> TRUE, yaml |-> TRUE, policies |-> AdminOnlyPolicies],
      [readable |-> TRUE, yaml |-> TRUE, policies |-> InvalidPolicies],
      [readable |-> TRUE, yaml |-> FALSE, policies |-> <<>>],
      [readable |-> FALSE, yaml |-> TRUE, policies |-> ReadmePolicies] }

File(exists, content, mtime) ==
    [exists |-> exists, readable |-> content.readable, yaml |-> content.yaml,
     policies |-> content.policies, mtime |-> mtime]

\* the file is replaced: new content, and the modification time the file
\* system gives it (kept, advanced, or an older one restored with the file)
EditFile(content, mtime) ==
    /\ edits < MaxEdits
    /\ edits' = edits + 1
    /\ policyFile' = File(TRUE, content, mtime)
    /\ policyFile' # policyFile
    /\ UNCHANGED <<now, threadVars, logLocals, loggerVars, statsVars, engineVars,
                   watchVars, mainVars, limiterVars, arrivals, unitVars>>

\* the file is removed
RemoveFile ==
    /\ edits < MaxEdits
    /\ policyFile.exists
    /\ edits' = edits + 1
    /\ policyFile' = [policyFile EXCEPT !.exists = FALSE]
    /\ UNCHANGED <<now, threadVars, logLocals, loggerVars, statsVars, engineVars,
                   watchVars, mainVars, limiterVars, arrivals, unitVars>>

\* main: policyEngine.LoadFromFile("./policies/policies.yaml")
MainLoad ==
    /\ mainpc = "load"
    /\ policies' = LoadFromFile(policyFile).policies
    /\ loaded' = LoadFromFile(policyFile).loaded
    /\ mainpc' = "watch"
    /\ UNCHANGED <<now, threadVars, logLocals, loggerVars, statsVars, fileVars,
                   watchVars, rbacPolicies, limiterVars, arrivals, unitVars>>

\* main: policyEngine.Watch(path, 5*time.Second) starts the goroutine
MainWatch ==
    /\ mainpc = "watch"
    /\ wpc' = "stat"
    /\ mainpc' = "wire"
    /\ UNCHANGED <<now, threadVars, logLocals, loggerVars, statsVars, fileVars,
                   engineVars, lastMod, wMod, rbacPolicies, limiterVars, arrivals, unitVars>>

\* the rule set an RBACMiddleware built now would hold
WiredPolicies == GetPolicies

\* main: rbac.RBACMiddleware(rbac.PolicySet{Policies: convert(policyEngine.GetPolicies())}),
\* and the server starts listening
MainWire ==
    /\ mainpc = "wire"
    /\ rbacPolicies' = WiredPolicies
    /\ mainpc' = "serve"
    /\ UNCHANGED <<now, threadVars, logLocals, loggerVars, statsVars, fileVars,
                   engineVars, watchVars, limiterVars, arrivals, unitVars>>

\* Watch: os.Stat(path), after the sleep of the previous round
WatchStat ==
    /\ wpc = "stat"
    /\ IF ~policyFile.exists
       THEN /\ policies' = Invalidated.policies
            /\ loaded' = Invalidated.loaded
            /\ UNCHANGED <<wpc, wMod>>
       ELSE /\ wMod' = policyFile.mtime
            /\ wpc' = IF policyFile.mtime > lastMod THEN "load" ELSE "stat"
            /\ UNCHANGED engineVars
    /\ UNCHANGED <<now, threadVars, logLocals, loggerVars, statsVars, fileVars,
                   lastMod, mainVars, limiterVars, arrivals, unitVars>>

\* Watch: e.LoadFromFile(path); lastMod = info.ModTime() when it succeeded
WatchLoad ==
    /\ wpc = "load"
    /\ policies' = LoadFromFile(policyFile).policies
    /\ loaded' = LoadFromFile(policyFile).loaded
    /\ lastMod' = IF LoadFromFile(policyFile).err = "" THEN wMod ELSE lastMod
    /\ wpc' = "stat"
    /\ UNCHANGED <<now, threadVars, logLocals, loggerVars, statsVars, fileVars,
                   wMod, mainVars, limiterVars, arrivals, unitVars>>

(* ---------------------------- rate limiter ---------------------------- *)

IPBucketCapacity == 20
IPRefillPerSecond == 5
UserBucketCapacity == 40
UserRefillPerSecond == 10
FallbackCapacity == 2
FallbackRefillPS == 1

\* One tick is the time in which the IP bucket refills one token; a token is
\* TokenScale units, so that every refill is a whole number of units.
TicksPerSecond == IPRefillPerSecond
TokenScale == TicksPerSecond

newBucket(capacity, refillPS, t) ==
    [capacity |-> capacity, tokens |-> capacity * TokenScale,
     refillPS |-> refillPS, last |-> t]

\* a refill that is not capped at the capacity
Refilled_NoCap(b, t) ==
    b.tokens + ((t - b.last) * b.refillPS * TokenScale) \div TicksPerSecond

\* tokens after the refill of bucket.allow: capped at the capacity
Refilled(b, t) ==
    LET raw == b.tokens + ((t - b.last) * b.refillPS * TokenScale) \div TicksPerSecond
    IN IF raw > b.capacity * TokenScale THEN b.capacity * TokenScale ELSE raw

\* an allow that takes a token whether or not one is there
allow_Overdraws(b, t) ==
    [bucket |-> [b EXCEPT !.last = t, !.tokens = Refilled(b, t) - TokenScale], ok |-> TRUE]

\* an allow that refuses the last whole token
allow_KeepsOne(b, t) ==
    LET tokens == Refilled(b, t)
    IN IF tokens <= TokenScale
       THEN [bucket |-> [b EXCEPT !.last = t, !.tokens = tokens], ok |-> FALSE]
       ELSE [bucket |-> [b EXCEPT !.last = t, !.tokens = tokens - TokenScale], ok |-> TRUE]

\* bucket.allow(now): the bucket afterwards and the answer
allow(b, t) ==
    LET tokens == Refilled(b, t)
    IN IF tokens < TokenScale
       THEN [bucket |-> [b EXCEPT !.last = t, !.tokens = tokens], ok |-> FALSE]
       ELSE [bucket |-> [b EXCEPT !.last = t, !.tokens = tokens - TokenScale], ok |-> TRUE]

\* extractIP: the host of host:port, "" when net.SplitHostPort fails
extractIP(remoteAddr) ==
    LET c == LastColon(remoteAddr, Len(remoteAddr))
    IN IF c = 0 THEN "" ELSE SubSeq(remoteAddr, 1, c - 1)

\* NewLimiter
NewLimiter ==
    [ipBuckets |-> <<>>, userBuckets |-> <<>>, ipNil |-> FALSE, userNil |-> FALSE]

\* fallbackAllow at wall-clock time t
fallbackAllow(lim, fb, t) ==
    [allowed |-> allow(fb, t).ok, limiter |-> lim, fallback |-> allow(fb, t).bucket]

\* a limiter that never looks at the user bucket
userAllow_Skipped(lim, fb, uid, t, wall) ==
    [allowed |-> TRUE, limiter |-> lim, fallback |-> fb]

\* the user-bucket part of safeAllow, the IP bucket having allowed
userAllow(lim, fb, uid, t, wall) ==
    IF uid = "" THEN [allowed |-> TRUE, limiter |-> lim, fallback |-> fb]
    ELSE IF uid \notin DOMAIN lim.userBuckets /\ lim.userNil
         THEN fallbackAllow(lim, fb, wall)
    ELSE LET b == IF uid \in DOMAIN lim.userBuckets THEN lim.userBuckets[uid]
                  ELSE newBucket(UserBucketCapacity, UserRefillPerSecond, t)
             a == allow(b, t)
         IN [allowed |-> a.ok,
             limiter |-> [lim EXCEPT !.userBuckets =
                            [k \in DOMAIN lim.userBuckets \cup {uid} |->
                                IF k = uid THEN a.bucket ELSE lim.userBuckets[k]]],
             fallback |-> fb]

\* a safeAllow that lets a request through when it cannot tell the client
safeAllow_FailsOpen(lim, fb, uid, remoteAddr, t, wall) ==
    LET ip == extractIP(remoteAddr)
    IN IF ip = "" THEN [allowed |-> TRUE, limiter |-> lim, fallback |-> fb]
       ELSE IF ip \notin DOMAIN lim.ipBuckets /\ lim.ipNil
            THEN fallbackAllow(lim, fb, wall)
       ELSE LET b == IF ip \in DOMAIN lim.ipBuckets THEN lim.ipBuckets[ip]
                     ELSE newBucket(IPBucketCapacity, IPRefillPerSecond, t)
                a == allow(b, t)
                lim1 == [lim EXCEPT !.ipBuckets =
                            [k \in DOMAIN lim.ipBuckets \cup {ip} |->
                                IF k = ip THEN a.bucket ELSE lim.ipBuckets[k]]]
            IN IF ~a.ok THEN [allowed |-> FALSE, limiter |-> lim1, fallback |-> fb]
               ELSE userAllow(lim1, fb, uid, t, wall)

\* a safeAllow that charges the user bucket before it looks at the answer of
\* the IP bucket
safeAllow_ChargesBoth(lim, fb, uid, remoteAddr, t, wall) ==
    LET ip == extractIP(remoteAddr)
    IN IF ip = "" THEN fallbackAllow(lim, fb, wall)
       ELSE IF ip \notin DOMAIN lim.ipBuckets /\ lim.ipNil
            THEN fallbackAllow(lim, fb, wall)
       ELSE LET b == IF ip \in DOMAIN lim.ipBuckets THEN lim.ipBuckets[ip]
                     ELSE newBucket(IPBucketCapacity, IPRefillPerSecond, t)
                a == allow(b, t)
                lim1 == [lim EXCEPT !.ipBuckets =
                            [k \in DOMAIN lim.ipBuckets \cup {ip} |->
                                IF k = ip THEN a.bucket ELSE lim.ipBuckets[k]]]
                u == userAllow(lim1, fb, uid, t, wall)
            IN [u EXCEPT !.allowed = a.ok /\ u.allowed]

\* Limiter.safeAllow(ctx, remoteAddr) with the user id of the context (""
\* when it carries none), at limiter-clock time t and wall-clock time wall:
\* the answer, and the limiter and the fallback bucket afterwards.  An
\* assignment to a nil map panics, and the recover answers fallbackAllow().
safeAllow(lim, fb, uid, remoteAddr, t, wall) ==
    LET ip == extractIP(remoteAddr)
    IN IF ip = "" THEN fallbackAllow(lim, fb, wall)
       ELSE IF ip \notin DOMAIN lim.ipBuckets /\ lim.ipNil
            THEN fallbackAllow(lim, fb, wall)
       ELSE LET b == IF ip \in DOMAIN lim.ipBuckets THEN lim.ipBuckets[ip]
                     ELSE newBucket(IPBucketCapacity, IPRefillPerSecond, t)
                a == allow(b, t)
                lim1 == [lim EXCEPT !.ipBuckets =
                            [k \in DOMAIN lim.ipBuckets \cup {ip} |->
                                IF k = ip THEN a.bucket ELSE lim.ipBuckets[k]]]
            IN IF ~a.ok THEN [allowed |-> FALSE, limiter |-> lim1, fallback |-> fb]
               ELSE userAllow(lim1, fb, uid, t, wall)

\* the context value under ratelimit.UserIDKey: no stage of the gateway sets it
ContextUserID(r) == ""

\* a limiter that lets /health through without charging a bucket
LimiterMiddleware_SkipsHealth(lim, fb, r, t) ==
    LET d == safeAllow(lim, fb, ContextUserID(r), r.RemoteAddr, t, t)
    IN IF r.Path = "/health"
       THEN [status |-> 0, charged |-> FALSE, limiter |-> lim, fallback |-> fb]
       ELSE [status |-> IF d.allowed THEN 0 ELSE 429, charged |-> TRUE,
             limiter |-> d.limiter, fallback |-> d.fallback]

\* Limiter.Middleware: status 0 means next.ServeHTTP is called
LimiterMiddleware(lim, fb, r, t) ==
    LET d == safeAllow(lim, fb, ContextUserID(r), r.RemoteAddr, t, t)
    IN [status |-> IF d.allowed THEN 0 ELSE 429, charged |-> TRUE,
        limiter |-> d.limiter, fallback |-> d.fallback]

(* ---------------------- bearer-token authenticator -------------------- *)

\* index of the first " " of s at or after i, 0 when there is none
RECURSIVE FirstSpace(_, _)
FirstSpace(s, i) ==
    IF i > Len(s) THEN 0
    ELSE IF SubSeq(s, i, i) = " " THEN i
    ELSE FirstSpace(s, i + 1)

JWTConfig == [Issuer |-> "gateway-issuer", Audience |-> "gateway-api"]

\* What jwt.Parse finds in a token string: the algorithm of its header,
\* whether its signature verifies under the configured public key, and its
\* claims (exp in seconds, -1 when it is absent or no number; aud "" when it
\* is no string).  A string that is not listed does not parse.
Token(alg, signed, iss, aud, exp, sub, roles) ==
    [alg |-> alg, signed |-> signed, iss |-> iss, aud |-> aud, exp |-> exp,
     sub |-> sub, roles |-> roles]
Tokens ==
    [s \in {"good", "none", "forged", "expired", "foreign", "nosub"} |->
        CASE s = "good" -> Token("RS256", TRUE, "gateway-issuer", "gateway-api", 100, "alice", <<"user">>)
          [] s = "none" -> Token("none", FALSE, "gateway-issuer", "gateway-api", 100, "alice", <<"admin">>)
          [] s = "forged" -> Token("RS256", FALSE, "gateway-issuer", "gateway-api", 100, "alice", <<"admin">>)
          [] s = "expired" -> Token("RS256", TRUE, "gateway-issuer", "gateway-api", -1, "alice", <<"user">>)
          [] s = "foreign" -> Token("RS256", TRUE, "other-issuer", "gateway-api", 100, "alice", <<"user">>)
          [] OTHER -> Token("RS256", TRUE, "gateway-issuer", "gateway-api", 100, "", <<"user">>)]

\* JWTMiddleware(cfg) at wall-clock time t: status 0 means next.ServeHTTP is
\* called, with the identity the request context then carries
JWTMiddleware(cfg, r, ctx, t) ==
    LET h == r.Authorization
        sp == FirstSpace(h, 1)
        tokenStr == SubSeq(h, sp + 1, Len(h))
        deny == [status |-> 401, identity |-> ctx]
    IN IF r.Path = "/health" THEN [status |-> 0, identity |-> ctx]
       ELSE IF h = "" THEN deny
       ELSE IF sp = 0 \/ SubSeq(h, 1, sp - 1) # "Bearer" THEN deny
       ELSE IF tokenStr \notin DOMAIN Tokens THEN deny
       ELSE IF Tokens[tokenStr].alg # "RS256" \/ ~Tokens[tokenStr].signed THEN deny
       ELSE IF Tokens[tokenStr].iss # cfg.Issuer THEN deny
       ELSE IF Tokens[tokenStr].aud # cfg.Audience THEN deny
       ELSE IF Tokens[tokenStr].exp < 0 \/ t \div TicksPerSecond > Tokens[tokenStr].exp THEN deny
       ELSE IF Tokens[tokenStr].sub = "" THEN deny
       ELSE [status |-> 0,
             identity |-> [Type |-> "jwt", Subject |-> Tokens[tokenStr].sub,
                           Roles |-> Tokens[tokenStr].roles]]

(* ------------------------------ gateway ------------------------------- *)

ClientAddr == "10.0.0.1:5000"

NoReq == Req("", "", "", "", "", "", 0, 0, "")
NoOut == [req |-> NoReq, status |-> 0, stages |-> <<>>, forwarded |-> FALSE,
          identity |-> NoIdentity, logged |-> 0]

\* the requests of the end-to-end scenarios
HealthProbe == Req("GET", "/health", "t", "", "", "", 0, 0, ClientAddr)
GatewayRequests ==
    { HealthProbe,
      Req("GET", "/health", "", "", "", "", 0, 0, ClientAddr),
      Req("GET", "/api/public", "t", "", "", "", 0, 0, ClientAddr),
      Req("GET", "/api/public", "t", UserKey, "", "", 0, 0, ClientAddr),
      Req("POST", "/api/admin", "t", UserKey, "", "application/json", 2, 2, ClientAddr),
      Req("POST", "/api/admin", "t", AdminKey, "", "application/json", 2, 2, ClientAddr),
      Req("POST", "/api/admin", "t", AdminKey, "", "application/json",
          MaxRequestBodyBytes + 1, MaxRequestBodyBytes + 1, ClientAddr) }

UpstreamStatuses == {200, 502}

\* http.StatusText
StatusText(code) ==
    CASE code = 200 -> "OK"
      [] code = 400 -> "Bad Request"
      [] code = 401 -> "Unauthorized"
      [] code = 403 -> "Forbidden"
      [] code = 429 -> "Too Many Requests"
      [] code = 502 -> "Bad Gateway"
      [] OTHER -> ""

\* what a stage that answered itself leaves: its status and the stages entered
Answered(status, stages, identity, lim, fb) ==
    [status |-> status, stages |-> stages, identity |-> identity,
     limiter |-> lim, fallback |-> fb]

\* securedChain: ValidateRequestMiddleware(authMiddleware(rbacMiddleware(
\* limiter.Middleware(proxy)))) run on r at time t.  status 0: the proxy is
\* called.  stages: the handlers entered, in order.
securedChain(r, t) ==
    LET v == ValidateRequestMiddleware(r)
        a == APIKeyMiddleware(DemoStore, r, NoIdentity)
        z == RBACMiddleware(rbacPolicies, r, a.identity)
        l == LimiterMiddleware(limiter, fallbackBucket, r, t)
    IN IF v.status # 0
       THEN Answered(v.status, <<"validate">>, NoIdentity, limiter, fallbackBucket)
       ELSE IF a.status # 0
       THEN Answered(a.status, <<"validate", "auth">>, NoIdentity, limiter, fallbackBucket)
       ELSE IF z.status # 0
       THEN Answered(z.status, <<"validate", "auth", "rbac">>, a.identity,
                     limiter, fallbackBucket)
       ELSE IF l.status # 0
       THEN Answered(l.status, <<"validate", "auth", "rbac", "limit">>, a.identity,
                     l.limiter, l.fallback)
       ELSE Answered(0, <<"validate", "auth", "rbac", "limit", "proxy">>, a.identity,
                     l.limiter, l.fallback)

\* an audit middleware that records only the requests that were let through
Audited_OnlyAllowed(status) == status < 400

\* finalHandler := auditMiddleware(securedChain): the audit code runs when
\* the inner chain returns, whatever status it wrote
Audited(status) == TRUE

\* a request arrives and runs down the chain to the stage that answers it, or
\* to the proxy
Receive(t, r) ==
    /\ mainpc = "serve"
    /\ pc[t] = "idle"
    /\ arrivals' = arrivals + 1
    /\ LET c == securedChain(r, now)
       IN /\ limiter' = c.limiter
          /\ fallbackBucket' = c.fallback
          /\ out' = [out EXCEPT ![t] =
                        [req |-> r, status |-> c.status, stages |-> c.stages,
                         forwarded |-> (c.status = 0), identity |-> c.identity,
                         logged |-> 0]]
          /\ pc' = [pc EXCEPT ![t] =
                        IF c.status = 0 THEN "proxy"
                        ELSE IF Audited(c.status) THEN "audit" ELSE "done"]
    /\ UNCHANGED <<now, logLocals, loggerVars, statsVars, policyVars, unitVars>>

\* the reverse proxy forwards the request; the upstream's status is written
Proxy(t, s) ==
    /\ pc[t] = "proxy"
    /\ out' = [out EXCEPT ![t].status = s]
    /\ pc' = [pc EXCEPT ![t] = IF Audited(s) THEN "audit" ELSE "done"]
    /\ UNCHANGED <<now, logLocals, loggerVars, statsVars, policyVars, limiterVars,
                   arrivals, unitVars>>

\* an audit middleware whose deny counter is written back from a value read
\* before another request was counted
AuditRecord_LosesIncrement(t) ==
    /\ pc[t] = "audit"
    /\ LET deny == out[t].status >= 400
       IN /\ allowCount' = IF deny THEN allowCount ELSE allowCount + 1
          /\ denyCount' = IF deny THEN (IF denyCount > 0 THEN denyCount ELSE 1) ELSE denyCount
          /\ logArgs' = [logArgs EXCEPT ![t] =
                [method |-> out[t].req.Method, path |-> out[t].req.Path,
                 decision |-> IF deny THEN "DENY" ELSE "ALLOW",
                 reason |-> IF deny THEN StatusText(out[t].status)
                            ELSE "all checks passed"]]
    /\ out' = [out EXCEPT ![t].logged = @ + 1]
    /\ logCalls' = logCalls + 1
    /\ pc' = [pc EXCEPT ![t] = "log_lock"]
    /\ UNCHANGED <<now, logEntry, written, mu, lastHash, auditFile, failures, restarts,
                   policyVars, limiterVars, arrivals, unitVars>>

\* an audit middleware for which a 400 is not yet a denial
AuditRecord_DenyAbove400(t) ==
    /\ pc[t] = "audit"
    /\ LET deny == out[t].status > 400
       IN /\ allowCount' = IF deny THEN allowCount ELSE allowCount + 1
          /\ denyCount' = IF deny THEN denyCount + 1 ELSE denyCount
          /\ logArgs' = [logArgs EXCEPT ![t] =
                [method |-> out[t].req.Method, path |-> out[t].req.Path,
                 decision |-> IF deny THEN "DENY" ELSE "ALLOW",
                 reason |-> IF deny THEN StatusText(out[t].status)
                            ELSE "all checks passed"]]
    /\ out' = [out EXCEPT ![t].logged = @ + 1]
    /\ logCalls' = logCalls + 1
    /\ pc' = [pc EXCEPT ![t] = "log_lock"]
    /\ UNCHANGED <<now, logEntry, written, mu, lastHash, auditFile, failures, restarts,
                   policyVars, limiterVars, arrivals, unitVars>>

\* auditMiddleware after next.ServeHTTP: decision, reason, counter, and the
\* call of auditLogger.Log
AuditRecord(t) ==
    /\ pc[t] = "audit"
    /\ LET deny == out[t].status >= 400
       IN /\ allowCount' = IF deny THEN allowCount ELSE allowCount + 1
          /\ denyCount' = IF deny THEN denyCount + 1 ELSE denyCount
          /\ logArgs' = [logArgs EXCEPT ![t] =
                [method |-> out[t].req.Method, path |-> out[t].req.Path,
                 decision |-> IF deny THEN "DENY" ELSE "ALLOW",
                 reason |-> IF deny THEN StatusText(out[t].status)
                            ELSE "all checks passed"]]
    /\ out' = [out EXCEPT ![t].logged = @ + 1]
    /\ logCalls' = logCalls + 1
    /\ pc' = [pc EXCEPT ![t] = "log_lock"]
    /\ UNCHANGED <<now, logEntry, written, mu, lastHash, auditFile, failures, restarts,
                   policyVars, limiterVars, arrivals, unitVars>>

(* ------------------------------ clock --------------------------------- *)

Tick ==
    /\ now < MaxTime
    /\ now' = now + 1
    /\ UNCHANGED <<threadVars, logLocals, loggerVars, statsVars, policyVars, limiterVars, arrivals, unitVars>>

NoBucket == [capacity |-> 0, tokens |-> 0, refillPS |-> 0, last |-> 0]
NoProbe == [stage |-> "", req |-> NoReq, ctx |-> NoIdentity, status |-> 0,
            identity |-> NoIdentity, env |-> <<>>]
Stages == {"apikey", "jwt", "rbac"}
NoServed == [n |-> 0, addr |-> "", uid |-> "", code |-> 0, next |-> FALSE]
NoChecked == [n |-> 0, req |-> NoReq, body |-> NoBody, status |-> 0, msg |-> "", got |-> NoBody]
NoSnap == [op |-> "", sawLoaded |-> FALSE, result |-> <<>>, pending |-> <<>>]
NoTamper == [kind |-> "", at |-> 0, n |-> 0]
NoCall == [addr |-> "", uid |-> "", allowed |-> FALSE, recovered |-> FALSE]

\* the policy file of the repository
InitialContent == [readable |-> TRUE, yaml |-> TRUE, policies |-> ReadmePolicies]

Init ==
    /\ now = 0
    /\ pc = [t \in Threads |-> "idle"]
    /\ logArgs = [t \in Threads |-> NoArgs]
    /\ logEntry = [t \in Threads |-> NoEntry]
    /\ mu = NoOwner
    /\ lastHash = ""
    /\ auditFile = <<>>
    /\ logCalls = 0
    /\ failures = 0
    /\ restarts = 0
    /\ written = [t \in Threads |-> 0]
    /\ out = [t \in Threads |-> NoOut]
    /\ allowCount = 0
    /\ denyCount = 0
    /\ policyFile = File(TRUE, InitialContent, 1)
    /\ edits = 0
    /\ policies = <<>>
    /\ loaded = FALSE
    /\ mainpc = "load"
    /\ rbacPolicies = <<>>
    /\ wpc = "off"
    /\ lastMod = 0
    /\ wMod = 0
    /\ limiter = NewLimiter
    /\ fallbackBucket = newBucket(FallbackCapacity, FallbackRefillPS, 0)
    /\ arrivals = 0
    /\ bkt = NoBucket
    /\ bktNow = 0
    /\ grants = <<>>
    /\ probe = [s \in Stages |-> NoProbe]
    /\ clk = 0
    /\ served = NoServed
    /\ trail = <<>>
    /\ lmu = NoOwner
    /\ call = [t \in Threads |-> NoCall]
    /\ tamper = NoTamper
    /\ emu = [writer |-> NoOwner, readers |-> {}]
    /\ snap = [t \in Threads |-> NoSnap]
    /\ checked = NoChecked
    /\ twin = [limiter |-> NewLimiter,
               fallback |-> newBucket(FallbackCapacity, FallbackRefillPS, 0),
               wall |-> 0, code |-> 0]

(* --------------------- audit logger used directly ---------------------- *)

\* the calls of TestHashChainIntegrity
LogCallArgs ==
    { [method |-> "GET", path |-> "/a", decision |-> "ALLOW", reason |-> "ok"],
      [method |-> "POST", path |-> "/b", decision |-> "DENY", reason |-> "blocked"] }

\* a caller invokes logger.Log(method, path, decision, reason)
CallLog(t, a) ==
    /\ pc[t] = "idle"
    /\ logCalls < MaxLogCalls
    /\ logCalls' = logCalls + 1
    /\ logArgs' = [logArgs EXCEPT ![t] = a]
    /\ written' = [written EXCEPT ![t] = 0]
    /\ pc' = [pc EXCEPT ![t] = "log_lock"]
    /\ UNCHANGED <<now, gatewayVars, logEntry, mu, lastHash, auditFile, failures, restarts>>

\* the call is over; the thread is free for the next one
Recycle(t) ==
    /\ pc[t] = "done"
    /\ pc' = [pc EXCEPT ![t] = "idle"]
    /\ written' = [written EXCEPT ![t] = 0]
    /\ out' = [out EXCEPT ![t] = NoOut]
    /\ UNCHANGED <<now, statsVars, policyVars, limiterVars, arrivals, unitVars,
                   logArgs, logEntry, loggerVars>>

\* the process stops (logger.Close) and starts again: NewLogger on the same path
Restart ==
    /\ \A t \in Threads : pc[t] = "idle"
    /\ restarts < MaxRestarts
    /\ restarts' = restarts + 1
    /\ lastHash' = ""
    /\ mu' = NoOwner
    /\ UNCHANGED <<now, threadVars, logLocals, auditFile, logCalls, failures, statsVars, policyVars, limiterVars, arrivals, unitVars>>

LogStep(t) ==
    \/ LogLock(t)
    \/ LogBuild(t)
    \/ LogWriteOk(t)
    \/ LogWriteFail(t)
    \/ LogReturn(t)

NextAudit ==
    \/ \E t \in Threads, a \in LogCallArgs : CallLog(t, a)
    \/ \E t \in Threads : LogStep(t)
    \/ \E t \in Threads : Recycle(t)
    \/ Restart
    \/ Tick

SpecAudit == Init /\ [][NextAudit]_vars

(* ----------------------------- the gateway ----------------------------- *)

Startup ==
    \/ MainLoad
    \/ MainWatch
    \/ MainWire

Watcher ==
    \/ WatchStat
    \/ WatchLoad

Handler(t) ==
    \/ \E s \in UpstreamStatuses : Proxy(t, s)
    \/ AuditRecord(t)
    \/ LogStep(t)
    \/ Recycle(t)

\* traffic of every kind, on a policy file that nobody touches
Next ==
    \/ Startup
    \/ Watcher
    \/ \E t \in Threads, r \in GatewayRequests : arrivals < MaxRequests /\ Receive(t, r)
    \/ \E t \in Threads : Handler(t)
    \/ Tick

Spec == Init /\ [][Next]_vars

\* the policy file is replaced or removed while the gateway serves
NextReload ==
    \/ Startup
    \/ Watcher
    \/ \E c \in FileContents, m \in 1..MaxMTime : EditFile(c, m)
    \/ RemoveFile
    \/ \E t \in Threads, r \in GatewayRequests : arrivals < MaxReloadRequests /\ Receive(t, r)
    \/ \E t \in Threads : Handler(t)

SpecReload == Init /\ [][NextReload]_vars

\* the policy file is replaced or removed under a gateway without traffic;
\* main() runs on and the watcher's loop keeps going round
NextWatch ==
    \/ Startup
    \/ Watcher
    \/ \E c \in FileContents, m \in 1..MaxMTime : EditFile(c, m)
    \/ RemoveFile

SpecWatch == Init /\ [][NextWatch]_vars /\ WF_vars(Startup) /\ WF_vars(Watcher)

\* policy files for LoadFromFile: the ones of the tests, and one for each
\* thing validatePolicyFile looks at
LoadContents ==
    FileContents \cup
    { [readable |-> TRUE, yaml |-> TRUE, policies |-> ps] : ps \in
        { <<>>,
          << Rule("GET", "/api", <<"admin">>) >>,
          << Rule("", "api", <<>>) >>,
          << Rule(" ", "/api", <<"admin">>) >>,
          << Rule("GET", "", <<"admin">>) >>,
          << Rule("GET", "api", <<"admin">>) >>,
          << Rule("GET", "/api", <<>>) >>,
          << Rule("GET", "/api", <<"admin", "">>) >>,
          << Rule("GET", "/api", <<" ">>) >>,
          << Rule("POST", "/", <<"user">>), Rule("GET", "/api", <<"admin">>) >> } }

\* files written one after the other, each with a later modification time,
\* and loaded by main() and by the watcher
NextLoad ==
    \/ Startup
    \/ Watcher
    \/ \E c \in LoadContents : EditFile(c, policyFile.mtime + 1)
    \/ RemoveFile

SpecLoad == Init /\ [][NextLoad]_vars

(* ------------- GetPolicies, LoadFromFile and invalidate step by step --- *)

\* what a step of a call into the Engine leaves alone, but for pc, the
\* engine's fields, its mutex and the call's locals
engineRest == <<now, out, logLocals, loggerVars, statsVars, fileVars, watchVars, mainVars,
                limiterVars, bkt, bktNow, grants, probe, limVars, tamper, checked, twin>>

\* a goroutine calls e.GetPolicies()
CallGetPolicies(t) ==
    /\ pc[t] = "idle"
    /\ arrivals' = arrivals + 1
    /\ snap' = [snap EXCEPT ![t] = [NoSnap EXCEPT !.op = "get"]]
    /\ pc' = [pc EXCEPT ![t] = "e_rlock"]
    /\ UNCHANGED <<engineRest, engineVars, emu>>

\* e.mu.RLock()
GetRLock(t) ==
    /\ pc[t] = "e_rlock"
    /\ emu.writer = NoOwner
    /\ emu' = [emu EXCEPT !.readers = @ \cup {t}]
    /\ pc' = [pc EXCEPT ![t] = "e_loaded"]
    /\ UNCHANGED <<engineRest, engineVars, arrivals, snap>>

\* if !e.loaded { return nil }
GetReadLoaded(t) ==
    /\ pc[t] = "e_loaded"
    /\ snap' = [snap EXCEPT ![t].sawLoaded = loaded, ![t].result = <<>>]
    /\ pc' = [pc EXCEPT ![t] = IF loaded THEN "e_policies" ELSE "e_runlock"]
    /\ UNCHANGED <<engineRest, engineVars, arrivals, emu>>

\* return e.policies
GetReadPolicies(t) ==
    /\ pc[t] = "e_policies"
    /\ snap' = [snap EXCEPT ![t].result = policies]
    /\ pc' = [pc EXCEPT ![t] = "e_runlock"]
    /\ UNCHANGED <<engineRest, engineVars, arrivals, emu>>

\* the deferred e.mu.RUnlock(); GetPolicies returns
GetRUnlock(t) ==
    /\ pc[t] = "e_runlock"
    /\ emu' = [emu EXCEPT !.readers = @ \ {t}]
    /\ pc' = [pc EXCEPT ![t] = "done"]
    /\ UNCHANGED <<engineRest, engineVars, arrivals, snap>>

\* a goroutine calls e.LoadFromFile(path): the file is read, parsed and
\* validated without the lock; what follows is the swap, or e.invalidate()
CallLoadFromFile(t) ==
    /\ pc[t] = "idle"
    /\ arrivals' = arrivals + 1
    /\ snap' = [snap EXCEPT ![t] =
                  IF LoadFromFile(policyFile).err = ""
                  THEN [NoSnap EXCEPT !.op = "load", !.pending = policyFile.policies]
                  ELSE [NoSnap EXCEPT !.op = "invalidate"]]
    /\ pc' = [pc EXCEPT ![t] = "e_lock"]
    /\ UNCHANGED <<engineRest, engineVars, emu>>

\* a Lock that does not wait for the readers to leave
EngineLock_IgnoresReaders(t) ==
    /\ pc[t] = "e_lock"
    /\ emu.writer = NoOwner
    /\ emu' = [emu EXCEPT !.writer = t]
    /\ pc' = [pc EXCEPT ![t] = "e_set_policies"]
    /\ UNCHANGED <<engineRest, engineVars, arrivals, snap>>

\* e.mu.Lock()
EngineLock(t) ==
    /\ pc[t] = "e_lock"
    /\ emu.writer = NoOwner /\ emu.readers = {}
    /\ emu' = [emu EXCEPT !.writer = t]
    /\ pc' = [pc EXCEPT ![t] = "e_set_policies"]
    /\ UNCHANGED <<engineRest, engineVars, arrivals, snap>>

\* e.policies = pf.Policies, or e.policies = nil
EngineSetPolicies(t) ==
    /\ pc[t] = "e_set_policies"
    /\ policies' = IF snap[t].op = "load" THEN snap[t].pending ELSE <<>>
    /\ pc' = [pc EXCEPT ![t] = "e_set_loaded"]
    /\ UNCHANGED <<engineRest, loaded, arrivals, emu, snap>>

\* e.loaded = true, or e.loaded = false
EngineSetLoaded(t) ==
    /\ pc[t] = "e_set_loaded"
    /\ loaded' = (snap[t].op = "load")
    /\ pc' = [pc EXCEPT ![t] = "e_unlock"]
    /\ UNCHANGED <<engineRest, policies, arrivals, emu, snap>>

\* the deferred e.mu.Unlock(); LoadFromFile returns
EngineUnlock(t) ==
    /\ pc[t] = "e_unlock"
    /\ emu' = [emu EXCEPT !.writer = NoOwner]
    /\ pc' = [pc EXCEPT ![t] = "done"]
    /\ UNCHANGED <<engineRest, engineVars, arrivals, snap>>

\* goroutines read the snapshot while others load the file, which is
\* replaced or removed in between
NextEngine ==
    \/ \E t \in Threads : arrivals < MaxEngineCalls /\ CallGetPolicies(t)
    \/ \E t \in Threads : arrivals < MaxEngineCalls /\ CallLoadFromFile(t)
    \/ \E t \in Threads :
          GetRLock(t) \/ GetReadLoaded(t) \/ GetReadPolicies(t) \/ GetRUnlock(t)
    \/ \E t \in Threads :
          EngineLock(t) \/ EngineSetPolicies(t) \/ EngineSetLoaded(t) \/ EngineUnlock(t)
    \/ \E t \in Threads : Recycle(t)
    \/ \E c \in FileContents : EditFile(c, 1)
    \/ RemoveFile

SpecEngine == Init /\ [][NextEngine]_vars

\* one client sends health probes in a burst; the upstream and the audit
\* file are healthy
NextBurst ==
    \/ Startup
    \/ Watcher
    \/ \E t \in Threads : arrivals < MaxProbes /\ Receive(t, HealthProbe)
    \/ \E t \in Threads : Proxy(t, 200)
    \/ \E t \in Threads : AuditRecord(t)
    \/ \E t \in Threads : LogLock(t) \/ LogBuild(t) \/ LogWriteOk(t) \/ LogReturn(t)
    \/ \E t \in Threads : Recycle(t)
    \/ Tick

SpecBurst == Init /\ [][NextBurst]_vars

(* ------------------- the middlewares run on their own ------------------ *)

ProbeContexts ==
    { NoIdentity, [Type |-> "api_key", Subject |-> "demo-user", Roles |-> <<"user">>] }
ProbeSets == { <<>>, ReadmePolicies }
ProbeRequests ==
    { Req("GET", "/health", "t", "", "", "", 0, 0, ClientAddr),
      Req("GET", "/health", "t", "invalid-key", "", "", 0, 0, ClientAddr),
      Req("GET", "/health", "t", UserKey, "", "", 0, 0, ClientAddr),
      Req("GET", "/health", "t", "", "Bearer forged", "", 0, 0, ClientAddr),
      Req("GET", "/health/", "t", "", "", "", 0, 0, ClientAddr),
      Req("GET", "/api/public", "t", "", "", "", 0, 0, ClientAddr),
      Req("GET", "/api/public", "t", UserKey, "", "", 0, 0, ClientAddr),
      Req("GET", "/api/public", "t", "invalid-key", "", "", 0, 0, ClientAddr),
      Req("GET", "/api/public", "t", "", "Bearer good", "", 0, 0, ClientAddr),
      Req("GET", "/api/public", "t", "", "Bearer forged", "", 0, 0, ClientAddr),
      Req("GET", "/api/public", "t", "", "Basic good", "", 0, 0, ClientAddr) }

Probed(stage, r, ctx, res) ==
    [stage |-> stage, req |-> r, ctx |-> ctx, status |-> res.status,
     identity |-> res.identity, env |-> <<>>]

\* APIKeyMiddleware(store)(next).ServeHTTP(w, r)
ProbeAPIKey(r, ctx) ==
    /\ probe' = [probe EXCEPT !["apikey"] =
                    Probed("apikey", r, ctx, APIKeyMiddleware(DemoStore, r, ctx))]
    /\ UNCHANGED <<now, threadVars, logLocals, loggerVars, statsVars, policyVars,
                   limiterVars, arrivals, bkt, bktNow, grants, limVars, tamper, engVars, checked, twin>>

\* JWTMiddleware(cfg)(next).ServeHTTP(w, r)
ProbeJWT(r, ctx) ==
    /\ probe' = [probe EXCEPT !["jwt"] =
                    Probed("jwt", r, ctx, JWTMiddleware(JWTConfig, r, ctx, now))]
    /\ UNCHANGED <<now, threadVars, logLocals, loggerVars, statsVars, policyVars,
                   limiterVars, arrivals, bkt, bktNow, grants, limVars, tamper, engVars, checked, twin>>

\* RBACMiddleware(policies)(next).ServeHTTP(w, r): RBAC leaves the context as it is
ProbeRBAC(set, r, ctx) ==
    /\ probe' = [probe EXCEPT !["rbac"] =
                    Probed("rbac", r, ctx,
                           [status |-> RBACMiddleware(set, r, ctx).status, identity |-> ctx])]
    /\ UNCHANGED <<now, threadVars, logLocals, loggerVars, statsVars, policyVars,
                   limiterVars, arrivals, bkt, bktNow, grants, limVars, tamper, engVars, checked, twin>>

\* rule sets: none, the one of the tests, the one of the README, one whose
\* first matching rule denies what a later rule allows, one in lower case
RuleSets ==
    { <<>>,
      << Rule("GET", "/api", <<"admin">>) >>,
      ReadmePolicies,
      << Rule("GET", "/api", <<"admin">>), Rule("GET", "/api/public", <<"user">>) >>,
      << Rule("get", "/api", <<"user">>) >> }

RBACRequests ==
    { Req(m, q, "t", "", "", "", 0, 0, ClientAddr) :
        m \in {"GET", "POST"},
        q \in {"/health", "/api", "/api/resource", "/api/public", "/apix", "/other"} }

RBACContexts ==
    { NoIdentity,
      [Type |-> "api_key", Subject |-> "demo-user", Roles |-> <<"user">>],
      [Type |-> "api_key", Subject |-> "demo-admin", Roles |-> <<"admin">>],
      [Type |-> "jwt", Subject |-> "both", Roles |-> <<"user", "admin">>],
      [Type |-> "jwt", Subject |-> "nobody", Roles |-> <<>>] }

\* RBACMiddleware(policies)(next).ServeHTTP(w, r), the rule set kept
EvalRBAC(set, r, ctx) ==
    /\ probe' = [probe EXCEPT !["rbac"] =
                    [Probed("rbac", r, ctx,
                            [status |-> RBACMiddleware(set, r, ctx).status, identity |-> ctx])
                     EXCEPT !.env = set]]
    /\ UNCHANGED <<now, threadVars, logLocals, loggerVars, statsVars, policyVars,
                   limiterVars, arrivals, bkt, bktNow, grants, limVars, tamper, engVars, checked, twin>>

NextRBAC == \E set \in RuleSets, r \in RBACRequests, ctx \in RBACContexts : EvalRBAC(set, r, ctx)

SpecRBAC == Init /\ [][NextRBAC]_vars

\* the store of the tests; a store filed under another string than the key
MockStore ==
    [k \in {"test-key-123"} |->
        [ID |-> "test-id", Key |-> "test-key-123", Roles |-> <<"admin", "user">>]]
AliasStore ==
    [k \in {"alias"} |-> [ID |-> "test-id", Key |-> "valid-key", Roles |-> <<"admin">>]]
EmptyStore == [k \in {} |-> [ID |-> "", Key |-> "", Roles |-> <<>>]]
Stores == { DemoStore, MockStore, AliasStore, EmptyStore }

KeyRequests ==
    { Req("GET", q, "t", k, "", "", 0, 0, ClientAddr) :
        q \in {"/health", "/", "/api"},
        k \in {"", UserKey, AdminKey, "test-key-123", "wrong-key-not-in-store",
               "alias", "valid-key"} }

\* APIKeyMiddleware(store)(next).ServeHTTP(w, r), the store kept
AuthAPIKey(store, r, ctx) ==
    /\ probe' = [probe EXCEPT !["apikey"] =
                    [Probed("apikey", r, ctx, APIKeyMiddleware(store, r, ctx))
                     EXCEPT !.env = store]]
    /\ UNCHANGED <<now, threadVars, logLocals, loggerVars, statsVars, policyVars,
                   limiterVars, arrivals, bkt, bktNow, grants, limVars, tamper, engVars, checked, twin>>

NextAPIKey == \E store \in Stores, r \in KeyRequests, ctx \in ProbeContexts : AuthAPIKey(store, r, ctx)

SpecAPIKey == Init /\ [][NextAPIKey]_vars

\* bodies: none, the ones of the tests, and bodies around the cap
Bodies ==
    { NoBody, Body("data", 0), Body("{\"foo\":\"bar\"}", 0),
      Body("", MaxRequestBodyBytes), Body("x", MaxRequestBodyBytes - 1),
      Body("", MaxRequestBodyBytes + 1), Body("x", MaxRequestBodyBytes) }

\* a request with this body: its length declared in Content-Length, or sent
\* in chunks (ContentLength = -1)
BodyRequests(b) ==
    { Req("POST", "/", ua, "", "", ct, clen, BodyLen(b), ClientAddr) :
        ua \in {"", " ", "test-agent"},
        ct \in {"", "application/json", "application/json; charset=utf-8",
                "application/xml", "text/plain", "Application/JSON"},
        clen \in {BodyLen(b), -1} }

\* ValidateRequestMiddleware(next).ServeHTTP(w, r): the answer, and the body
\* that next reads when it is called
Validate(r, b) ==
    /\ checked' = [n |-> checked.n + 1, req |-> r, body |-> b,
                   status |-> ValidateRequestMiddleware(r).status,
                   msg |-> ValidateRequestMiddleware(r).msg,
                   got |-> IF ValidateRequestMiddleware(r).status = 0
                           THEN Buffered(b).data ELSE NoBody]
    /\ UNCHANGED <<now, threadVars, logLocals, loggerVars, statsVars, policyVars,
                   limiterVars, arrivals, bkt, bktNow, grants, probe, limVars, tamper,
                   engVars, twin>>

NextValidate == \E b \in Bodies : \E r \in BodyRequests(b) : checked.n < MaxValidations /\ Validate(r, b)

SpecValidate == Init /\ [][NextValidate]_vars

NextStages ==
    \/ \E r \in ProbeRequests, ctx \in ProbeContexts : ProbeAPIKey(r, ctx)
    \/ \E r \in ProbeRequests, ctx \in ProbeContexts : ProbeJWT(r, ctx)
    \/ \E s \in ProbeSets, r \in ProbeRequests, ctx \in ProbeContexts : ProbeRBAC(s, r, ctx)

SpecStages == Init /\ [][NextStages]_vars

(* ----------------------- a bucket used on its own ---------------------- *)

BucketConfigs ==
    { <<IPBucketCapacity, IPRefillPerSecond>>,
      <<UserBucketCapacity, UserRefillPerSecond>>,
      <<FallbackCapacity, FallbackRefillPS>> }

\* the bucket is watched for the time it needs to refill MaxRefill tokens
Horizon(refillPS) == (MaxRefill * TicksPerSecond) \div refillPS

\* newBucket(capacity, refillPS, now)
BucketNew(cfg) ==
    /\ bkt = NoBucket
    /\ bkt' = newBucket(cfg[1], cfg[2], bktNow)
    /\ UNCHANGED <<now, threadVars, logLocals, loggerVars, statsVars, policyVars,
                   limiterVars, arrivals, bktNow, grants, probe, limVars, tamper, engVars, checked, twin>>

\* b.allow(now)
BucketAllow ==
    /\ bkt # NoBucket
    /\ bkt' = allow(bkt, bktNow).bucket
    /\ grants' = IF allow(bkt, bktNow).ok THEN Append(grants, bktNow) ELSE grants
    /\ UNCHANGED <<now, threadVars, logLocals, loggerVars, statsVars, policyVars,
                   limiterVars, arrivals, bktNow, probe, limVars, tamper, engVars, checked, twin>>

\* the clock the bucket is fed from advances
BucketTick ==
    /\ bkt # NoBucket
    /\ bktNow < Horizon(bkt.refillPS)
    /\ bktNow' = bktNow + 1
    /\ UNCHANGED <<now, threadVars, logLocals, loggerVars, statsVars, policyVars,
                   limiterVars, arrivals, bkt, grants, probe, limVars, tamper, engVars, checked, twin>>

NextBucket ==
    \/ \E cfg \in BucketConfigs : BucketNew(cfg)
    \/ BucketAllow
    \/ BucketTick

SpecBucket == Init /\ [][NextBucket]_vars

(* ------------------- the limiter's handler on its own ------------------ *)

\* the clients of limiter_test.go, and a remote address without a port
AddrA == "1.2.3.4:1234"
AddrB == "5.5.5.5:9999"
AddrC == "9.9.9.9:123"
AddrD == "8.8.8.8:80"
BadAddr == "8.8.8.8"
UserOne == "user-1"

\* a handler that answers every request with 200 although the limiter denied
ServeLimited_NoReturn(lim, fb, uid, remoteAddr, t, wall) ==
    LET d == safeAllow(lim, fb, uid, remoteAddr, t, wall)
    IN [code |-> 200, next |-> TRUE, limiter |-> d.limiter, fallback |-> d.fallback]

\* limiter.Middleware(next).ServeHTTP(rr, req), next writing 200: req carries
\* uid under UserIDKey ("" for none); the limiter's clock reads t and
\* time.Now() reads wall
ServeLimited(lim, fb, uid, remoteAddr, t, wall) ==
    LET d == safeAllow(lim, fb, uid, remoteAddr, t, wall)
    IN [code |-> IF d.allowed THEN 200 ELSE 429, next |-> d.allowed,
        limiter |-> d.limiter, fallback |-> d.fallback]

\* one request is served by the handler
Handle(addr, uid) ==
    LET a == ServeLimited(limiter, fallbackBucket, uid, addr, clk, now)
    IN /\ limiter' = a.limiter
       /\ fallbackBucket' = a.fallback
       /\ served' = [n |-> served.n + 1, addr |-> addr, uid |-> uid,
                     code |-> a.code, next |-> a.next]
       /\ UNCHANGED <<now, threadVars, logLocals, loggerVars, statsVars, policyVars,
                      arrivals, bkt, bktNow, grants, probe, clk, lmu, call, tamper, engVars, checked, twin>>

Serve(addr, uid) == Handle(addr, uid) /\ UNCHANGED trail

\* the same, the test keeping every answer
ServeKept(addr, uid) ==
    /\ Handle(addr, uid)
    /\ trail' = Append(trail, [at |-> clk, code |-> served'.code, next |-> served'.next])

\* fakeClock.Advance
Advance ==
    /\ clk < MaxClock
    /\ clk' = clk + 1
    /\ UNCHANGED <<now, threadVars, logLocals, loggerVars, statsVars, policyVars,
                   limiterVars, arrivals, bkt, bktNow, grants, probe, served, trail,
                   lmu, call, tamper, engVars, checked, twin>>

\* one client sending request after request
NextRapid ==
    \/ served.n < MaxRapid /\ ServeKept(AddrB, "")
    \/ Advance

SpecRapid == Init /\ [][NextRapid]_vars

\* three clients sharing one user identifier, the clock standing still
NextUsers ==
    served.n < MaxUserServes /\ \E addr \in {AddrA, AddrB, AddrC} : Serve(addr, UserOne)

SpecUsers == Init /\ [][NextUsers]_vars

\* one client, with and without a user identifier, the clock advancing
NextClock ==
    \/ served.n < MaxClockServes /\ Serve(AddrA, "")
    \/ served.n < MaxClockServes /\ Serve(AddrA, UserOne)
    \/ Advance

SpecClock == Init /\ [][NextClock]_vars

\* three clients sharing one user identifier, one after the other: the first
\* sends more requests than its IP bucket holds, the second as many as its IP
\* bucket holds, the third the rest
Sender(n) ==
    IF n <= IPBucketCapacity + 1 THEN AddrA
    ELSE IF n <= 2 * IPBucketCapacity + 1 THEN AddrB
    ELSE AddrC

NextCharge ==
    \/ served.n < MaxChargeServes /\ Serve(Sender(served.n), UserOne)
    \/ Advance

SpecCharge == Init /\ [][NextCharge]_vars

(* ---------------------- the limiter with a fault ----------------------- *)

\* safeAllow(ctx, remoteAddr) cannot decide with the limiter's own buckets:
\* extractIP gives "", or the bucket it has to store goes into a nil map
\* (the assignment panics)
Faulted(lim, uid, remoteAddr) ==
    LET ip == extractIP(remoteAddr)
    IN \/ ip = ""
       \/ ip \notin DOMAIN lim.ipBuckets /\ lim.ipNil
       \/ /\ uid # ""
          /\ uid \notin DOMAIN lim.userBuckets /\ lim.userNil
          /\ allow(IF ip \in DOMAIN lim.ipBuckets THEN lim.ipBuckets[ip]
                   ELSE newBucket(IPBucketCapacity, IPRefillPerSecond, clk), clk).ok

\* limiter.ipBuckets = nil
CorruptIP ==
    /\ ~limiter.ipNil
    /\ limiter' = [limiter EXCEPT !.ipBuckets = <<>>, !.ipNil = TRUE]
    /\ UNCHANGED <<now, threadVars, logLocals, loggerVars, statsVars, policyVars,
                   fallbackBucket, arrivals, unitVars>>

\* limiter.userBuckets = nil
CorruptUsers ==
    /\ ~limiter.userNil
    /\ limiter' = [limiter EXCEPT !.userBuckets = <<>>, !.userNil = TRUE]
    /\ UNCHANGED <<now, threadVars, logLocals, loggerVars, statsVars, policyVars,
                   fallbackBucket, arrivals, unitVars>>

\* a request is served; the test keeps the wall-clock time of every request
\* that was let through although the limiter was at fault
ServeFaulty(addr, uid) ==
    /\ Handle(addr, uid)
    /\ trail' = IF Faulted(limiter, uid, addr) /\ served'.next
                THEN Append(trail, [at |-> now, code |-> served'.code, next |-> TRUE])
                ELSE trail

\* a second of wall-clock time passes
Second ==
    /\ now < MaxSeconds * TicksPerSecond
    /\ now' = now + TicksPerSecond
    /\ UNCHANGED <<threadVars, logLocals, loggerVars, statsVars, policyVars,
                   limiterVars, arrivals, unitVars>>

NextFault ==
    \/ CorruptIP
    \/ CorruptUsers
    \/ served.n < MaxFaultServes /\ \E uid \in {"", UserOne} : ServeFaulty(AddrD, uid)
    \/ served.n < MaxFaultServes /\ ServeFaulty(BadAddr, "")
    \/ Second

SpecFault == Init /\ [][NextFault]_vars

(* ------------------ two runs of the limiter side by side --------------- *)

\* the same request is served in both runs, the injected clock reading the
\* same in both; time.Now() reads now in the first run and twin.wall in the
\* second
ServeBoth(addr, uid) ==
    LET a == ServeLimited(limiter, fallbackBucket, uid, addr, clk, now)
        b == ServeLimited(twin.limiter, twin.fallback, uid, addr, clk, twin.wall)
    IN /\ limiter' = a.limiter
       /\ fallbackBucket' = a.fallback
       /\ served' = [n |-> served.n + 1, addr |-> addr, uid |-> uid,
                     code |-> a.code, next |-> a.next]
       /\ twin' = [twin EXCEPT !.limiter = b.limiter, !.fallback = b.fallback,
                               !.code = b.code]
       /\ UNCHANGED <<now, threadVars, logLocals, loggerVars, statsVars, policyVars,
                      arrivals, bkt, bktNow, grants, probe, clk, trail, lmu, call,
                      tamper, engVars, checked>>

\* a second of wall-clock time passes in the second run
TwinSecond ==
    /\ twin.wall < MaxSeconds * TicksPerSecond
    /\ twin' = [twin EXCEPT !.wall = twin.wall + TicksPerSecond]
    /\ UNCHANGED <<now, threadVars, logLocals, loggerVars, statsVars, policyVars,
                   limiterVars, arrivals, bkt, bktNow, grants, probe, limVars, tamper,
                   engVars, checked>>

NextTwin ==
    \/ served.n < MaxTwinServes /\ ServeBoth(AddrD, "")
    \/ served.n < MaxTwinServes /\ ServeBoth(BadAddr, "")
    \/ Advance
    \/ Second
    \/ TwinSecond

SpecTwin == Init /\ [][NextTwin]_vars

(* ------------- safeAllow and Log step by step, with panics ------------- *)

\* the assignment into a nil bucket map that makes safeAllow panic
Panics(lim, uid, remoteAddr) ==
    extractIP(remoteAddr) # "" /\ Faulted(lim, uid, remoteAddr)

\* a request thread calls l.safeAllow(ctx, remoteAddr)
CallLimiter(t, addr, uid) ==
    /\ pc[t] = "idle"
    /\ arrivals' = arrivals + 1
    /\ call' = [call EXCEPT ![t] = [addr |-> addr, uid |-> uid, allowed |-> FALSE,
                                    recovered |-> FALSE]]
    /\ pc' = [pc EXCEPT ![t] = "lim_lock"]
    /\ UNCHANGED <<now, out, logLocals, loggerVars, statsVars, policyVars, limiterVars,
                   bkt, bktNow, grants, probe, clk, served, trail, lmu, tamper, engVars, checked, twin>>

\* l.mu.Lock()
LimLock(t) ==
    /\ pc[t] = "lim_lock"
    /\ lmu = NoOwner
    /\ lmu' = t
    /\ pc' = [pc EXCEPT ![t] = "lim_decide"]
    /\ UNCHANGED <<now, out, logLocals, loggerVars, statsVars, policyVars, limiterVars,
                   arrivals, bkt, bktNow, grants, probe, clk, served, trail, call, tamper,
                   engVars, checked, twin>>

\* the body of safeAllow under the lock: it returns an answer, or panics
\* having charged what it charged before the panic
LimDecide(t) ==
    /\ pc[t] = "lim_decide"
    /\ LET d == safeAllow(limiter, fallbackBucket, call[t].uid, call[t].addr, clk, now)
       IN IF Panics(limiter, call[t].uid, call[t].addr)
          THEN /\ limiter' = d.limiter
               /\ UNCHANGED <<fallbackBucket, call>>
               /\ pc' = [pc EXCEPT ![t] = "lim_unwind"]
          ELSE /\ limiter' = d.limiter
               /\ fallbackBucket' = d.fallback
               /\ call' = [call EXCEPT ![t].allowed = d.allowed]
               /\ pc' = [pc EXCEPT ![t] = "lim_unlock"]
    /\ UNCHANGED <<now, out, logLocals, loggerVars, statsVars, policyVars,
                   arrivals, bkt, bktNow, grants, probe, clk, served, trail, lmu, tamper,
                   engVars, checked, twin>>

\* the deferred l.mu.Unlock() on return
LimUnlock(t) ==
    /\ pc[t] = "lim_unlock"
    /\ lmu' = IF lmu = t THEN NoOwner ELSE lmu
    /\ pc' = [pc EXCEPT ![t] = "done"]
    /\ UNCHANGED <<now, out, logLocals, loggerVars, statsVars, policyVars, limiterVars,
                   arrivals, bkt, bktNow, grants, probe, clk, served, trail, call, tamper,
                   engVars, checked, twin>>

\* a panic that unwinds past the deferred Unlock without running it
LimUnwind_KeepsLock(t) ==
    /\ pc[t] = "lim_unwind"
    /\ pc' = [pc EXCEPT ![t] = "lim_recover"]
    /\ UNCHANGED <<now, out, logLocals, loggerVars, statsVars, policyVars, limiterVars,
                   arrivals, bkt, bktNow, grants, probe, clk, served, trail, lmu, call, tamper,
                   engVars, checked, twin>>

\* the panic unwinds: the deferred l.mu.Unlock() runs first
LimUnwind(t) ==
    /\ pc[t] = "lim_unwind"
    /\ lmu' = IF lmu = t THEN NoOwner ELSE lmu
    /\ pc' = [pc EXCEPT ![t] = "lim_recover"]
    /\ UNCHANGED <<now, out, logLocals, loggerVars, statsVars, policyVars, limiterVars,
                   arrivals, bkt, bktNow, grants, probe, clk, served, trail, call, tamper,
                   engVars, checked, twin>>

\* then the first deferred function: recover() != nil, allowed = fallbackAllow()
LimRecover(t) ==
    /\ pc[t] = "lim_recover"
    /\ fallbackBucket' = allow(fallbackBucket, now).bucket
    /\ call' = [call EXCEPT ![t].allowed = allow(fallbackBucket, now).ok,
                            ![t].recovered = TRUE]
    /\ pc' = [pc EXCEPT ![t] = "done"]
    /\ UNCHANGED <<now, out, logLocals, loggerVars, statsVars, policyVars, limiter,
                   arrivals, bkt, bktNow, grants, probe, clk, served, trail, lmu, tamper,
                   engVars, checked, twin>>

\* a panic raised in Log while it holds the mutex: the deferred Unlock and
\* the deferred recover() are all that still runs; no entry is written
LogPanic(t) ==
    /\ pc[t] \in {"log_build", "log_write"}
    /\ failures < MaxFailures
    /\ failures' = failures + 1
    /\ pc' = [pc EXCEPT ![t] = "log_ret"]
    /\ UNCHANGED <<now, gatewayVars, logLocals, mu, lastHash, auditFile, logCalls, restarts>>

\* what a thread does once it is inside safeAllow or Log, but for the locks
Unlocked(t) ==
    \/ LimDecide(t) \/ LimUnlock(t) \/ LimUnwind(t) \/ LimRecover(t)
    \/ LogBuild(t) \/ LogWriteOk(t) \/ LogReturn(t)

NextPanic ==
    \/ CorruptIP
    \/ CorruptUsers
    \/ \E t \in Threads :
          \/ logCalls + arrivals < MaxCalls /\ \E a \in LogCallArgs : CallLog(t, a)
          \/ logCalls + arrivals < MaxCalls
                /\ \E uid \in {"", UserOne} : CallLimiter(t, AddrD, uid)
          \/ LimLock(t)
          \/ LogLock(t)
          \/ LogPanic(t)
          \/ Unlocked(t)
          \/ Recycle(t)

\* a running goroutine keeps running, and a goroutine waiting for a
\* sync.Mutex gets it when it is released again and again
SpecPanic ==
    /\ Init /\ [][NextPanic]_vars
    /\ \A t \in Threads :
          WF_vars(Unlocked(t)) /\ SF_vars(LimLock(t)) /\ SF_vars(LogLock(t))

(* ------------- the audit file edited behind the logger's back ---------- *)

\* the ways to cut the bytes of two adjacent fields into two fields
Cuts(a, b) ==
    LET ab == a \o b
    IN { <<SubSeq(ab, 1, k), SubSeq(ab, k + 1, Len(ab))>> : k \in 0..Len(ab) }

\* the entry with bytes moved from one field to its neighbour
Shifted(e) ==
    { [e EXCEPT !.Method = c[1], !.Path = c[2]] : c \in Cuts(e.Method, e.Path) }
    \cup { [e EXCEPT !.Path = c[1], !.Decision = c[2]] : c \in Cuts(e.Path, e.Decision) }
    \cup { [e EXCEPT !.Decision = c[1], !.Reason = c[2]] : c \in Cuts(e.Decision, e.Reason) }

\* the entry with one field replaced
Rewritten(e) ==
    { [e EXCEPT !.Timestamp = t] : t \in 0..MaxTime }
    \cup { [e EXCEPT !.Method = m] : m \in {"GET", "POST", "DELETE"} }
    \cup { [e EXCEPT !.Path = q] : q \in {"/a", "/b", "/"} }
    \cup { [e EXCEPT !.Decision = d] : d \in {"ALLOW", "DENY"} }
    \cup { [e EXCEPT !.Reason = r] : r \in {"ok", "blocked", ""} }

\* the entry with a field value changed and its stored hashes left as they are
Modified(e) == (Shifted(e) \cup Rewritten(e)) \ {e}

\* no Log call is in progress
AtRest == \A t \in Threads : pc[t] = "idle"

\* somebody rewrites a field of a persisted entry
TamperField ==
    /\ AtRest /\ tamper = NoTamper
    /\ \E i \in 1..Len(auditFile) : \E e \in Modified(Unmarshal(auditFile[i])) :
         /\ auditFile' = [auditFile EXCEPT ![i] = Marshal(e)]
         /\ tamper' = [kind |-> "field", at |-> i, n |-> 1]
    /\ UNCHANGED <<now, threadVars, logLocals, mu, lastHash, logCalls, failures, restarts,
                   statsVars, policyVars, limiterVars, arrivals, bkt, bktNow, grants,
                   probe, limVars, engVars, checked, twin>>

\* an entry nobody logged, chained to prevHash as Log would chain it
Forged(a, t, prevHash) ==
    LET e == [Timestamp |-> t, Method |-> a.method, Path |-> a.path,
              Decision |-> a.decision, Reason |-> a.reason,
              PrevHash |-> prevHash, Hash |-> ""]
    IN [e EXCEPT !.Hash = computeHash(e)]

\* the stored hash of the line before position p
HashBefore(file, p) == IF p = 1 THEN "" ELSE file[p - 1].hash

\* lines to put at position p: no JSON, JSON that is no entry, a copy of a
\* line of the file, an entry made up and chained to the line before
ExtraLines(file, p) ==
    {BlankLine, ObjectLine}
    \cup { file[i] : i \in 1..Len(file) }
    \cup { Marshal(Forged(a, now, HashBefore(file, p))) : a \in LogCallArgs }

\* somebody puts a line into the file
TamperInsert ==
    /\ AtRest /\ tamper = NoTamper
    /\ \E p \in 1..(Len(auditFile) + 1) : \E line \in ExtraLines(auditFile, p) :
         /\ auditFile' = SubSeq(auditFile, 1, p - 1) \o <<line>>
                            \o SubSeq(auditFile, p, Len(auditFile))
         /\ tamper' = [kind |-> "insert", at |-> p, n |-> 1]
    /\ UNCHANGED <<now, threadVars, logLocals, mu, lastHash, logCalls, failures, restarts,
                   statsVars, policyVars, limiterVars, arrivals, bkt, bktNow, grants,
                   probe, limVars, engVars, checked, twin>>

\* somebody removes the lines i..j from the file
TamperDelete ==
    /\ AtRest /\ tamper = NoTamper
    /\ Len(auditFile) >= 2
    /\ \E i \in 1..Len(auditFile) : \E j \in i..Len(auditFile) :
         /\ auditFile' = SubSeq(auditFile, 1, i - 1)
                            \o SubSeq(auditFile, j + 1, Len(auditFile))
         /\ tamper' = [kind |-> "delete", at |-> i, n |-> j - i + 1]
    /\ UNCHANGED <<now, threadVars, logLocals, mu, lastHash, logCalls, failures, restarts,
                   statsVars, policyVars, limiterVars, arrivals, bkt, bktNow, grants,
                   probe, limVars, engVars, checked, twin>>

NextTamper ==
    \/ \E t \in Threads, a \in LogCallArgs :
          logCalls < MaxTamperCalls /\ tamper = NoTamper /\ CallLog(t, a)
    \/ \E t \in Threads : LogLock(t) \/ LogBuild(t) \/ LogWriteOk(t) \/ LogReturn(t)
    \/ \E t \in Threads : Recycle(t)
    \/ tamper = NoTamper /\ Tick
    \/ TamperField
    \/ TamperInsert
    \/ TamperDelete

SpecTamper == Init /\ [][NextTamper]_vars

(* ============================== claims ================================ *)

\* prev_hash of every entry is the hash of the entry before it in the file,
\* and only the first entry has the empty prev_hash
ChainLinked(file) ==
    \A i \in 1..Len(file) :
        /\ file[i].kind = "entry"
        /\ file[i].prev_hash = (IF i = 1 THEN "" ELSE file[i - 1].hash)
        /\ (file[i].prev_hash = "") = (i = 1)

InLog(t) == pc[t] \in {"log_lock", "log_build", "log_write", "log_ret"}

\* C2: in every reachable state of the audit file, also after a restart
\* (NewLogger on a file that already holds entries), every entry's prev_hash
\* is the hash of the preceding entry, only the first entry has an empty
\* prev_hash, and the file passes VerifyLogIntegrity (no write having failed).
C2_ChainHoldsAcrossRestart ==
    failures = 0 =>
        /\ ChainLinked(auditFile)
        /\ VerifyLogIntegrity(auditFile) = "ok"

\* C3: from an empty file, with one Logger and every write succeeding, the
\* entries written by concurrent Log calls form one chain under every
\* interleaving: VerifyLogIntegrity accepts the file.
C3_ConcurrentLogsChain ==
    (restarts = 0 /\ failures = 0) =>
        /\ ChainLinked(auditFile)
        /\ VerifyLogIntegrity(auditFile) = "ok"
        /\ Len(auditFile) = logCalls - Cardinality({t \in Threads :
                                pc[t] \in {"log_lock", "log_build", "log_write"}})

\* two entries are in the file while one thread holds the mutex in Log and
\* another waits for it
C3_Witness ==
    /\ restarts = 0 /\ failures = 0
    /\ Len(auditFile) >= 2
    /\ \E t1, t2 \in Threads :
          /\ pc[t1] = "log_write" /\ mu = t1
          /\ pc[t2] = "log_lock"

Range(seq) == {seq[i] : i \in 1..Len(seq)}

\* thread t receives a request in this step
Receives(t) == pc[t] = "idle" /\ pc'[t] \in {"proxy", "audit", "done"}

\* the request of thread t is still inside the inner chain
InChain(t) == pc[t] = "proxy"

\* C1: every request dispatched to the audited chain has its Log call made
\* exactly once, after the inner chain finished; when no write failed, each
\* finished request appended exactly one entry, whether it was forwarded or
\* denied at any stage, the first included.
C1_OneAuditEntryPerRequest ==
    /\ \A t \in Threads :
        /\ pc[t] \in {"proxy", "audit"} => out[t].logged = 0
        /\ pc[t] \in {"log_lock", "log_build", "log_write", "log_ret", "done"}
              => out[t].logged = 1
        /\ (pc[t] = "done" /\ failures = 0) => written[t] = 1
    /\ failures = 0 =>
         Len(auditFile) = arrivals - Cardinality({t \in Threads :
            pc[t] \in {"proxy", "audit", "log_lock", "log_build", "log_write"}})

\* a request denied by the first stage has been logged, and so has a
\* forwarded one
C1_Witness ==
    /\ failures = 0
    /\ Len(auditFile) = 2
    /\ \E i \in 1..2 : auditFile[i].decision = "ALLOW"
    /\ \E t \in Threads :
          /\ pc[t] = "done"
          /\ out[t].stages = <<"validate">>
          /\ out[t].status = 400
          /\ written[t] = 1

\* C4: whenever the engine is in the deny-all state (snapshot() is empty),
\* an authenticated request to a path other than /health is denied with 403
\* and not forwarded.
C4_DenyAllDeniesEveryRequest ==
    [][\A t \in Threads :
         (Receives(t) /\ GetPolicies = <<>> /\ out'[t].identity # NoIdentity)
            => (out'[t].status = 403 /\ ~out'[t].forwarded)]_vars

\* the engine holds the rules of the file as it is now
EngineInSync ==
    /\ policyFile.exists
    /\ loaded
    /\ policies = policyFile.policies
    /\ lastMod = policyFile.mtime

\* some rule of the set allows the request for one of the roles
SomeRuleAllows(set, r, roles) ==
    \E p \in Range(set) :
        /\ p.method = r.Method
        /\ HasPrefix(r.Path, p.path)
        /\ Range(p.roles) \cap Range(roles) # {}

\* C5: once the watcher has reloaded a policy file that replaced the one the
\* gateway started on, the authorization decisions follow the new rule set.
C5_DecisionsFollowReload ==
    [][\A t \in Threads :
         (Receives(t) /\ edits > 0 /\ EngineInSync /\ out'[t].identity # NoIdentity)
            => ((out'[t].status # 403)
                  = SomeRuleAllows(policies, out'[t].req, out'[t].identity.Roles))]_vars

\* a call of LoadFromFile returns in this step
LoadReturns ==
    \/ mainpc = "load" /\ mainpc' = "watch"
    \/ wpc = "load" /\ wpc' = "stat"

\* C6: when load returns an error, snapshot() is empty whatever was active
\* before, and it stays empty until a load succeeds.
C6_LoadErrorEmptiesSnapshot ==
    [][/\ (LoadReturns /\ LoadFromFile(policyFile).err # "") => GetPolicies' = <<>>
       /\ (GetPolicies = <<>> /\ GetPolicies' # <<>>)
             => (LoadReturns /\ LoadFromFile(policyFile).err = "")]_vars

\* the watcher had loaded a valid file; the file was replaced by one with an
\* invalid rule and the reload left the engine empty
C6_Witness ==
    /\ edits = 1
    /\ policyFile.exists /\ policyFile.readable /\ policyFile.yaml
    /\ policyFile.policies = InvalidPolicies
    /\ lastMod > 0
    /\ wpc = "stat" /\ wMod = policyFile.mtime
    /\ GetPolicies = <<>>

\* what the validator requires of a request
WellFormed(r) ==
    /\ TrimSpace(r.UserAgent) # ""
    /\ r.ContentLength > 0 =>
          \E ct \in Range(AllowedContentTypes) : HasPrefix(r.ContentType, ct)
    /\ r.BodySize <= MaxRequestBodyBytes

AllStages == <<"validate", "auth", "rbac", "limit", "proxy">>

C8_HealthNeverRateLimited ==
    [][\A t \in Threads :
         (Receives(t) /\ out'[t].req.Path = "/health")
            => (out'[t].status # 429 /\ UNCHANGED limiterVars)]_vars

\* tokens (in units) a bucket of the given capacity and refill rate offers
\* at time t to the client ip
Available(ip, capacity, refillPS, t) ==
    IF ip \notin DOMAIN limiter.ipBuckets THEN capacity * TokenScale
    ELSE LET b == limiter.ipBuckets[ip]
             v == b.tokens + (t - b.last) * refillPS
         IN IF v > capacity * TokenScale THEN capacity * TokenScale ELSE v

\* C8 as amended: a well-formed request to /health skips authentication and
\* RBAC but not the limiter: it is charged to the IP bucket of its client,
\* is answered 429 exactly when that bucket holds less than one token, and
\* is forwarded otherwise.
C8_HealthIsRateLimited ==
    [][\A t \in Threads :
         (Receives(t) /\ out'[t].req.Path = "/health" /\ WellFormed(out'[t].req))
            => LET ip == extractIP(out'[t].req.RemoteAddr)
                   have == Available(ip, IPBucketCapacity, IPRefillPerSecond, now)
               IN /\ ip \in DOMAIN limiter'.ipBuckets
                  /\ limiter'.ipBuckets[ip].last = now
                  /\ (out'[t].status = 429) = (have < TokenScale)
                  /\ out'[t].forwarded = (have >= TokenScale)
                  /\ limiter'.ipBuckets[ip].tokens =
                        IF have < TokenScale THEN have ELSE have - TokenScale]_vars

\* a health probe was answered 429 and audited
C8_Witness ==
    \E t \in Threads :
        /\ pc[t] = "done"
        /\ out[t].req.Path = "/health"
        /\ out[t].status = 429
        /\ \E i \in 1..Len(auditFile) :
              auditFile[i].path = "/health" /\ auditFile[i].reason = "Too Many Requests"

\* C9: a request whose path is exactly /health is passed on unchanged by the
\* API-key authenticator, the bearer-token authenticator and the RBAC
\* evaluator: whatever credentials or identity it carries or lacks, next is
\* called and the context is the one that came in.
C9_HealthBypassesAuthAndRBAC ==
    \A s \in Stages :
        (probe[s].stage = s /\ probe[s].req.Path = "/health")
            => (probe[s].status = 0 /\ probe[s].identity = probe[s].ctx)

\* each of the three stages has passed on a /health request that carries no
\* credential and no identity
C9_Witness ==
    \A s \in Stages :
        /\ probe[s].stage = s
        /\ probe[s].req.Path = "/health"
        /\ probe[s].req.XAPIKey = "" /\ probe[s].req.Authorization = ""
        /\ probe[s].ctx = NoIdentity
        /\ probe[s].status = 0 /\ probe[s].identity = NoIdentity

\* C10: for a bucket fed non-decreasing time readings, the number of requests
\* allowed in any window never exceeds capacity + refill-per-second * W (W in
\* seconds; both sides are multiplied by TicksPerSecond).
C10_WindowBound ==
    \A i, j \in 1..Len(grants) :
        i <= j =>
            (j - i + 1) * TicksPerSecond
                <= bkt.capacity * TicksPerSecond + bkt.refillPS * (grants[j] - grants[i])

\* a window that opens with a full burst and in which the bound is attained
\* after a refill
C10_Witness ==
    \E j \in 1..Len(grants) :
        /\ grants[1] < grants[j]
        /\ j * TicksPerSecond
              = bkt.capacity * TicksPerSecond + bkt.refillPS * (grants[j] - grants[1])


\* the first twenty answers are 200 and the twenty-first is 429
BurstCut ==
    /\ \A i \in 1..IPBucketCapacity : trail[i].code = 200
    /\ trail[IPBucketCapacity + 1].code = 429

\* C12: when a client with no prior traffic sends 21 requests within one
\* second, the first 20 are allowed and the 21st is answered 429.
C12_TwentyOneWithinOneSecond ==
    (/\ Len(trail) > IPBucketCapacity
     /\ trail[IPBucketCapacity + 1].at - trail[1].at <= TicksPerSecond) => BurstCut

\* C12 as amended: the same when the 21st request arrives before the bucket
\* has refilled one token since the first, that is less than
\* 1/IPRefillPerSecond s after it.
C12_TwentyOneWithinOneRefill ==
    (/\ Len(trail) > IPBucketCapacity
     /\ (trail[IPBucketCapacity + 1].at - trail[1].at) * IPRefillPerSecond
            < TicksPerSecond) => BurstCut

\* the 21st request of a burst made after the clock had advanced was answered 429
C12_Witness ==
    /\ Len(trail) = IPBucketCapacity + 1
    /\ trail[1].at = MaxClock
    /\ trail[IPBucketCapacity + 1].at = trail[1].at
    /\ trail[IPBucketCapacity + 1].code = 429

\* C13: with the clock not advancing, a client not seen before and carrying
\* no user identifier is allowed exactly its first IPBucketCapacity requests;
\* each later one is answered 429 without the next handler being called.
C13_FirstCapacityRequestsOnly ==
    \A k \in 1..Len(trail) :
        trail[k].at = trail[1].at =>
            /\ trail[k].next = (k <= IPBucketCapacity)
            /\ trail[k].next => trail[k].code = 200
            /\ k > IPBucketCapacity => trail[k].code = 429

\* two requests beyond the capacity were turned away on a clock that stood still
C13_Witness ==
    /\ Len(trail) = IPBucketCapacity + 2
    /\ clk = trail[1].at
    /\ \A k \in IPBucketCapacity + 1 .. IPBucketCapacity + 2 :
          trail[k].code = 429 /\ ~trail[k].next

\* the request count is one more: the handler served a request in this step
Served == served'.n = served.n + 1

\* tokens (in units) the bucket under key offers at reading t: the full
\* capacity when there is none yet
Holds(buckets, key, capacity, refillPS, t) ==
    IF key \notin DOMAIN buckets THEN capacity * TokenScale
    ELSE LET v == buckets[key].tokens + (t - buckets[key].last) * refillPS
         IN IF v > capacity * TokenScale THEN capacity * TokenScale ELSE v

IPHolds(addr) ==
    Holds(limiter.ipBuckets, extractIP(addr), IPBucketCapacity, IPRefillPerSecond, clk)

UserHolds(uid) ==
    Holds(limiter.userBuckets, uid, UserBucketCapacity, UserRefillPerSecond, clk)

AllBuckets ==
    {limiter.ipBuckets[k] : k \in DOMAIN limiter.ipBuckets}
        \cup {limiter.userBuckets[k] : k \in DOMAIN limiter.userBuckets}
        \cup {fallbackBucket}

\* C11: in every reachable state of the limiter every bucket holds between 0
\* and capacity tokens.
C11_TokensWithinCapacity ==
    \A b \in AllBuckets : 0 <= b.tokens /\ b.tokens <= b.capacity * TokenScale

\* one IP bucket is empty while the user bucket, refilled beyond its capacity
\* and cut back to it, holds one token less than its capacity
C11_Witness ==
    /\ \E k \in DOMAIN limiter.ipBuckets : limiter.ipBuckets[k].tokens = 0
    /\ UserOne \in DOMAIN limiter.userBuckets
    /\ limiter.userBuckets[UserOne].last > 0
    /\ limiter.userBuckets[UserOne].tokens = (UserBucketCapacity - 1) * TokenScale

\* C14: a request carrying a user identifier is allowed only if both its IP
\* bucket and the bucket of that user hold a token: with the user's bucket
\* exhausted it is answered 429 whatever its IP bucket holds; an allowed one
\* has taken a token from the user's bucket.
C14_UserBucketAlsoEnforced ==
    [][(Served /\ served'.uid # "") =>
          /\ served'.next =
                (IPHolds(served'.addr) >= TokenScale /\ UserHolds(served'.uid) >= TokenScale)
          /\ served'.code = IF served'.next THEN 200 ELSE 429
          /\ served'.next =>
                /\ served'.uid \in DOMAIN limiter'.userBuckets
                /\ limiter'.userBuckets[served'.uid].tokens
                      = UserHolds(served'.uid) - TokenScale]_vars

\* the user's bucket is exhausted and a request from a client whose IP bucket
\* still holds tokens was answered 429
C14_Witness ==
    /\ served.uid = UserOne /\ served.code = 429 /\ served.addr = AddrC
    /\ extractIP(AddrC) \in DOMAIN limiter.ipBuckets
    /\ limiter.ipBuckets[extractIP(AddrC)].tokens >= TokenScale
    /\ limiter.userBuckets[UserOne].tokens < TokenScale

\* C15: when the IP bucket denies, the user bucket is not consulted: the
\* user-bucket map is left as it was (no bucket created, refilled or charged).
C15_UserBucketUntouchedOnIPDeny ==
    [][(Served /\ served'.uid # "" /\ IPHolds(served'.addr) < TokenScale) =>
          /\ served'.code = 429
          /\ limiter'.userBuckets = limiter.userBuckets]_vars

\* the IP bucket denied at a later reading than the last one the user's bucket
\* saw: that bucket still shows the old reading and tokens
C15_Witness ==
    /\ served.uid = UserOne /\ served.code = 429 /\ served.addr = AddrA
    /\ UserOne \in DOMAIN limiter.userBuckets
    /\ limiter.ipBuckets[extractIP(AddrA)].tokens < TokenScale
    /\ limiter.ipBuckets[extractIP(AddrA)].last = clk
    /\ limiter.userBuckets[UserOne].last < clk
    /\ limiter.userBuckets[UserOne].tokens >= TokenScale

\* C16: a request on which the limiter hits an internal fault (a nil bucket
\* map, the panic it causes, a remote address that is not host:port) gets
\* exactly the answer of the one fallback bucket, which is charged for it; the
\* requests so allowed number at most FallbackCapacity + FallbackRefillPS * W
\* in any window of W seconds.
C16_FaultFallsBackToOneBucket ==
    /\ [](\A i, j \in 1..Len(trail) :
            i <= j =>
                (j - i + 1) * TicksPerSecond
                    <= FallbackCapacity * TicksPerSecond
                         + FallbackRefillPS * (trail[j].at - trail[i].at))
    /\ [][(Served /\ Faulted(limiter, served'.uid, served'.addr)) =>
            /\ served'.next = allow(fallbackBucket, now).ok
            /\ served'.code = IF allow(fallbackBucket, now).ok THEN 200 ELSE 429
            /\ fallbackBucket' = allow(fallbackBucket, now).bucket]_vars

\* with the IP map gone, the fallback let two requests through at once and a
\* third a second later, and has just turned one away
C16_Witness ==
    /\ limiter.ipNil
    /\ Len(trail) = 3
    /\ trail[2].at = trail[1].at /\ trail[3].at > trail[1].at
    /\ served.code = 429 /\ served.addr = AddrD

InLimiter(t) == pc[t] \in {"lim_lock", "lim_decide", "lim_unlock", "lim_unwind", "lim_recover"}

\* C17: a panic inside safeAllow or inside Log never leaves the caller without
\* an answer and never leaves the component's mutex held: a mutex is held only
\* by a thread that still has its deferred Unlock to run, and every call,
\* panicking or waiting behind one that panicked, returns.
C17_PanicsReleaseTheLock ==
    /\ [](\A t \in Threads :
            /\ lmu = t => pc[t] \in {"lim_decide", "lim_unlock", "lim_unwind"}
            /\ mu = t => pc[t] \in {"log_build", "log_write", "log_ret"})
    /\ \A t \in Threads : (InLimiter(t) \/ InLog(t)) ~> (pc[t] = "done")

\* one thread's safeAllow panicked and returned the fallback's answer, a Log
\* call has panicked and returned too, the logger's mutex is free again and
\* another thread has since acquired the limiter's mutex
C17_Witness ==
    \E t1, t2 \in Threads :
        /\ pc[t1] = "done" /\ call[t1].recovered
        /\ failures > 0
        /\ lmu = t2 /\ pc[t2] = "lim_decide"
        /\ mu = NoOwner

\* C18: once a field of a persisted entry (timestamp, method, path, decision
\* or reason) has been given another value and the stored hashes left alone,
\* VerifyLogIntegrity returns an error.
C18_FieldChangeDetected ==
    tamper.kind = "field" => VerifyLogIntegrity(auditFile) # "ok"

\* C19: once a line the logger did not append has been put into a file that
\* holds entries, at whatever position, VerifyLogIntegrity returns an error.
C19_InsertedLineDetected ==
    (tamper.kind = "insert" /\ Len(auditFile) > 1)
        => VerifyLogIntegrity(auditFile) # "ok"

\* C20: once an entry or a contiguous run of entries has been removed from a
\* file of two entries or more, at the start, in the middle or at the end,
\* VerifyLogIntegrity returns an error (also when entries are left).
C20_DeletionDetected ==
    (tamper.kind = "delete" /\ Len(auditFile) > 0)
        => VerifyLogIntegrity(auditFile) # "ok"

\* the step is the failed write of a Log call
WriteFails == failures' = failures + 1

\* the step is the successful write of thread t's Log call
WriteSucceeds(t) == pc[t] = "log_write" /\ written'[t] = written[t] + 1

\* C21: a failed write leaves lastHash as it was and leaves its Log call at
\* the deferred Unlock, from where it returns to its caller with the mutex
\* released; lastHash of a Logger changes only in the step of a successful
\* write, and then to the hash of the entry that write appended.
C21_LastHashFollowsWrites ==
    [][ /\ WriteFails =>
             /\ lastHash' = lastHash
             /\ \E t \in Threads : pc[t] = "log_write" /\ pc'[t] = "log_ret" /\ mu' = t
        /\ (\E t \in Threads : pc[t] = "log_ret" /\ pc'[t] # "log_ret")
             => \E t \in Threads : pc'[t] = "done" /\ mu' = NoOwner
        /\ (lastHash' # lastHash /\ restarts' = restarts) =>
             \E t \in Threads :
                 /\ WriteSucceeds(t)
                 /\ lastHash' = logEntry[t].Hash
                 /\ auditFile' = AppendLine(auditFile, Marshal(logEntry[t])) ]_vars

\* a Log call whose write failed has returned without having written, the
\* mutex is free and lastHash is still the hash of the last entry of the file
C21_Witness ==
    /\ failures > 0 /\ restarts = 0
    /\ mu = NoOwner
    /\ \E t \in Threads : pc[t] = "done" /\ written[t] = 0
    /\ Len(auditFile) > 0
    /\ auditFile[Len(auditFile)].kind = "entry"
    /\ lastHash = auditFile[Len(auditFile)].hash

\* C22: when a write has failed and a later write succeeds, the file is
\* rejected by VerifyLogIntegrity: the missing entry shows as a break of the
\* chain.
C22_GapDetected ==
    [][ (failures > 0 /\ restarts = 0 /\ \E t \in Threads : WriteSucceeds(t))
          => VerifyLogIntegrity(auditFile') # "ok" ]_vars

\* the contents LoadFromFile accepts
ValidContents ==
    { c \in FileContents : c.readable /\ c.yaml /\ validatePolicyFile(c.policies) = "" }

\* C23: when the engine is in deny-all after a failed load or a failed stat
\* and the policy file is readable and valid and stays as it is from then on,
\* whatever its modification time, the engine is eventually loaded with the
\* rules of that file.
C23_RepairEndsDenyAll ==
    \A c \in ValidContents, m \in 1..MaxMTime :
        []( ( /\ mainpc # "load" /\ ~loaded
              /\ [](policyFile = File(TRUE, c, m)) )
            => <>(loaded /\ policies = c.policies) )

\* C24: in every reachable state of the engine snapshot() is empty if and
\* only if the engine is not loaded: a loaded engine holds at least one rule.
C24_EmptyIffNotLoaded ==
    /\ (GetPolicies = <<>>) <=> ~loaded
    /\ loaded => Len(policies) >= 1

\* the engine is loaded with the rules of the file that is on disk after two
\* replacements
C24_Witness ==
    /\ loaded /\ Len(GetPolicies) >= 1
    /\ edits = 2 /\ lastMod = policyFile.mtime /\ policies = policyFile.policies

\* what C25 requires of the file as it is read
NonEmptyFields(file) ==
    /\ file.exists /\ file.readable /\ file.yaml
    /\ \A i \in 1..Len(file.policies) :
         LET p == file.policies[i]
         IN /\ p.method # ""
            /\ p.path # "" /\ SubSeq(p.path, 1, 1) = "/"
            /\ Len(p.roles) > 0
            /\ \A j \in 1..Len(p.roles) : p.roles[j] # ""

\* a string with a character other than the space
NotBlank(str) == \E k \in 1..Len(str) : SubSeq(str, k, k) # " "

\* the same, with at least one rule and with fields that are not blank
NonBlankFields(file) ==
    /\ NonEmptyFields(file)
    /\ Len(file.policies) > 0
    /\ \A i \in 1..Len(file.policies) :
         LET p == file.policies[i]
         IN /\ NotBlank(p.method)
            /\ \A j \in 1..Len(p.roles) : NotBlank(p.roles[j])

\* C25: load(path) succeeds exactly when the file parses and every listed
\* rule has a non-empty method, a non-empty path starting with '/' and a
\* non-empty role list without an empty role; after a successful load
\* snapshot() returns the file's rules in declaration order.
C25_LoadSucceedsIffFieldsNonEmpty ==
    [][LoadReturns =>
         /\ loaded' <=> NonEmptyFields(policyFile)
         /\ loaded' => GetPolicies' = policyFile.policies]_vars

\* C25 as the code has it: load(path) succeeds exactly when the file parses,
\* lists at least one rule, and every listed rule has a method that is not
\* empty or blank, a path starting with '/' and a non-empty role list without
\* an empty or blank role; after a successful load snapshot() returns the
\* file's rules in declaration order.
C25_LoadSucceedsIffFieldsNonBlank ==
    [][LoadReturns =>
         /\ loaded' <=> NonBlankFields(policyFile)
         /\ loaded' => GetPolicies' = policyFile.policies]_vars

\* a file of two rules has been loaded after a file that was refused, and
\* snapshot() returns its two rules in the file's order
C25_Witness ==
    /\ edits = 2 /\ loaded /\ lastMod = policyFile.mtime
    /\ Len(policyFile.policies) = 2
    /\ GetPolicies = policyFile.policies
    /\ GetPolicies[1].method = "POST" /\ GetPolicies[2].method = "GET"

\* the engine holds what a whole load or a whole invalidation left
Committed ==
    \/ ~loaded /\ policies = <<>>
    \/ loaded /\ \E c \in ValidContents : policies = c.policies

\* C26: a snapshot() call that runs while other goroutines load or
\* invalidate reads an engine that holds the whole result of one load or of
\* one invalidation for as long as it reads, and what it is about to return
\* is that set: the rules of one file that passed validation, in full, or
\* nothing; it never finds the engine loaded and returns no rule.
C26_SnapshotIsConsistent ==
    \A t \in Threads :
        /\ pc[t] \in {"e_loaded", "e_policies", "e_runlock"}
              => (emu.writer = NoOwner /\ Committed)
        /\ pc[t] = "e_runlock" =>
              /\ snap[t].result = GetPolicies
              /\ snap[t].sawLoaded => snap[t].result # <<>>
              /\ \/ snap[t].result = <<>>
                 \/ \E c \in ValidContents : snap[t].result = c.policies

\* a snapshot() call has found the engine loaded and is about to read the
\* rules while another goroutine waits for the lock to invalidate the engine
C26_Witness ==
    \E t1, t2 \in Threads :
        /\ pc[t1] = "e_policies" /\ snap[t1].sawLoaded
        /\ pc[t2] = "e_lock" /\ snap[t2].op = "invalidate"
        /\ loaded /\ policies # <<>>

\* the step in which the audit middleware of thread t derives its record
Records(t) == pc[t] = "audit" /\ pc'[t] = "log_lock"

\* C27: for every audited request the decision handed to the logger, and
\* written to the file, is ALLOW if and only if the status written to the
\* client is below 400, and DENY otherwise; the reason is "all checks passed"
\* on ALLOW and the reason phrase of the status on DENY; and the matching
\* counter, and only that one, goes up by one.
C27_DecisionFollowsStatus ==
    [][\A t \in Threads :
         /\ Records(t) =>
              LET a == logArgs'[t]
                  st == out[t].status
              IN /\ a.decision = (IF st < 400 THEN "ALLOW" ELSE "DENY")
                 /\ a.reason = (IF st < 400 THEN "all checks passed" ELSE StatusText(st))
                 /\ a.method = out[t].req.Method /\ a.path = out[t].req.Path
                 /\ allowCount' = allowCount + (IF st < 400 THEN 1 ELSE 0)
                 /\ denyCount' = denyCount + (IF st < 400 THEN 0 ELSE 1)
         /\ (WriteSucceeds(t) /\ Len(auditFile') = Len(auditFile) + 1) =>
              LET e == auditFile'[Len(auditFile')]
                  st == out[t].status
              IN /\ e.decision = (IF st < 400 THEN "ALLOW" ELSE "DENY")
                 /\ e.reason = (IF st < 400 THEN "all checks passed" ELSE StatusText(st))
                 /\ e.method = out[t].req.Method /\ e.path = out[t].req.Path ]_vars

\* a request answered with 400 and a request that the upstream answered with
\* 200 are in the audit file, and each counter stands at one
C27_Witness ==
    /\ allowCount = 1 /\ denyCount = 1
    /\ \E i, j \in 1..Len(auditFile) :
          /\ auditFile[i].kind = "entry" /\ auditFile[j].kind = "entry"
          /\ auditFile[i].decision = "DENY" /\ auditFile[i].reason = "Bad Request"
          /\ auditFile[j].decision = "ALLOW" /\ auditFile[j].reason = "all checks passed"

\* the RBAC evaluator has been run
Evaluated == probe["rbac"].stage = "rbac"

\* C28: a request without an identity in its context that reaches the RBAC
\* evaluator is answered 403 and next is not called, whatever the rule set.
C28_NoIdentityIsForbidden ==
    (Evaluated /\ probe["rbac"].ctx = NoIdentity) => probe["rbac"].status = 403

\* C28 as the code has it: a request for a path other than /health without an
\* identity in its context that reaches the RBAC evaluator is answered 403 and
\* next is not called, whatever the rule set.
C28_NoIdentityIsForbiddenButHealth ==
    (Evaluated /\ probe["rbac"].ctx = NoIdentity /\ probe["rbac"].req.Path # "/health")
        => probe["rbac"].status = 403

\* a request without identity was refused under a rule set that has a rule
\* for its method and path
C28_Witness ==
    /\ Evaluated /\ probe["rbac"].ctx = NoIdentity
    /\ probe["rbac"].req.Method = "GET" /\ probe["rbac"].req.Path = "/api/public"
    /\ probe["rbac"].env = ReadmePolicies
    /\ probe["rbac"].status = 403

\* C29: for a request with an identity and a path other than /health, next is
\* called if and only if some rule has the request's method (compared case
\* by case), a path that is a prefix of the request's path and a role in
\* common with the identity, wherever the rule stands in the set; and when no
\* rule allows, the empty set included, the answer is 403.
C29_AllowedIffSomeRuleAllows ==
    (Evaluated /\ probe["rbac"].ctx # NoIdentity /\ probe["rbac"].req.Path # "/health")
        => /\ (probe["rbac"].status = 0)
                <=> SomeRuleAllows(probe["rbac"].env, probe["rbac"].req,
                                   probe["rbac"].ctx.Roles)
           /\ probe["rbac"].status \in {0, 403}

\* a user's request passed although the first rule that matches its method
\* and path is for admins only: the second rule allowed it
C29_Witness ==
    /\ Evaluated /\ probe["rbac"].status = 0
    /\ probe["rbac"].ctx.Roles = <<"user">>
    /\ probe["rbac"].req.Method = "GET" /\ probe["rbac"].req.Path = "/api/public"
    /\ Len(probe["rbac"].env) = 2
    /\ probe["rbac"].env[1] = Rule("GET", "/api", <<"admin">>)

\* the key the request presents is in the store, filed under itself
KeyValid(store, key) == key # "" /\ key \in DOMAIN store /\ store[key].Key = key

\* C30: for a path other than /health the API-key authenticator calls next if
\* and only if X-API-Key is not empty, the store holds a record for it and the
\* record's key is the presented value; the context then carries an api-key
\* identity with the record's id as subject and the record's roles; in every
\* other case the answer is 401 and next is not called.
C30_NextIffKeyValid ==
    LET q == probe["apikey"]
    IN (q.stage = "apikey" /\ q.req.Path # "/health") =>
          IF KeyValid(q.env, q.req.XAPIKey)
          THEN /\ q.status = 0
               /\ q.identity = [Type |-> "api_key", Subject |-> q.env[q.req.XAPIKey].ID,
                                Roles |-> q.env[q.req.XAPIKey].Roles]
          ELSE q.status = 401

\* the key of the tests was accepted in place of the identity the context had,
\* with the subject and the two roles of its record
C30_Witness ==
    LET q == probe["apikey"]
    IN /\ q.stage = "apikey" /\ q.req.Path = "/api" /\ q.req.XAPIKey = "test-key-123"
       /\ q.ctx # NoIdentity
       /\ q.status = 0
       /\ q.identity = [Type |-> "api_key", Subject |-> "test-id", Roles |-> <<"admin", "user">>]

\* the string starts with one of the allow-listed media types
StartsAllowListed(ct) ==
    \E a \in Range(AllowedContentTypes) : Len(ct) >= Len(a) /\ SubSeq(ct, 1, Len(a)) = a

\* the validator has been run
Validated == checked.n > 0

C32_BodyPreserved ==
    Validated =>
        /\ (checked.status = 0 /\ BodyLen(checked.body) <= MaxRequestBodyBytes)
              => checked.got = checked.body
        /\ BodyLen(checked.body) > MaxRequestBodyBytes => checked.status # 0
        /\ (BodyLen(checked.body) <= MaxRequestBodyBytes
              /\ ValidateRequestMiddleware([checked.req EXCEPT !.BodySize = 0]).status = 0)
              => checked.status = 0

\* a body of exactly the cap, with a byte that is not zero in front, was
\* passed on whole
C32_Witness ==
    /\ Validated /\ checked.status = 0
    /\ BodyLen(checked.body) = MaxRequestBodyBytes
    /\ checked.body.head = "x"
    /\ checked.got = checked.body

\* C36: a request that the validator passes on with a body that is not empty
\* carries a Content-Type that starts with an allow-listed media type, also
\* when its length is not declared (ContentLength = -1).
C36_BodyImpliesContentType ==
    (Validated /\ checked.status = 0 /\ BodyLen(checked.got) > 0)
        => StartsAllowListed(checked.req.ContentType)

\* C33: every time reading that decides a request comes from the limiter's
\* injected clock, the fallback bucket's decisions included: two runs that
\* are fed the same requests and the same readings of the injected clock give
\* the same answers.
C33_SameClockSameDecisions ==
    served.n > 0 => served.code = twin.code

\* tokens the IP bucket and the user bucket of the request just served offer
\* after the step
IPHoldsAfter ==
    Holds(limiter'.ipBuckets, extractIP(served'.addr), IPBucketCapacity, IPRefillPerSecond, clk')

UserHoldsAfter ==
    Holds(limiter'.userBuckets, served'.uid, UserBucketCapacity, UserRefillPerSecond, clk')

\* the handler answered 429 in this step
Rejected == Served /\ served'.code = 429

\* C34: a request that the limiter rejects with 429 consumes no token from
\* any bucket: after the rejection the IP bucket and the user bucket of the
\* request offer what refill alone gives them.
C34_RejectionChargesNothing ==
    [][Rejected =>
         /\ IPHoldsAfter = IPHolds(served'.addr)
         /\ UserHoldsAfter = UserHolds(served'.uid)]_vars

\* C34 as amended: a request that the limiter rejects with 429 consumes no
\* token from the bucket that rejects it.  Rejected by the IP bucket, it
\* leaves the IP bucket and the user bucket with what refill alone gives
\* them; rejected by the user bucket, it leaves the user bucket with what
\* refill alone gives it and has been charged one token of the IP bucket,
\* which let it through first.
C34_RejectingBucketChargesNothing ==
    [][Rejected =>
         /\ UserHoldsAfter = UserHolds(served'.uid)
         /\ IF IPHolds(served'.addr) < TokenScale
            THEN /\ IPHoldsAfter = IPHolds(served'.addr)
                 /\ limiter'.userBuckets = limiter.userBuckets
            ELSE /\ UserHolds(served'.uid) < TokenScale
                 /\ IPHoldsAfter = IPHolds(served'.addr) - TokenScale]_vars

\* the user bucket has rejected a request, after a refill, that its IP bucket
\* let through: the IP bucket is one token short of its capacity
C34_Witness ==
    /\ served.code = 429 /\ served.uid = UserOne
    /\ clk > 0
    /\ limiter.userBuckets[UserOne].tokens < TokenScale
    /\ limiter.userBuckets[UserOne].last = clk
    /\ limiter.ipBuckets[extractIP(served.addr)].tokens >= TokenScale

\* C35: an audit entry with decision DENY is written only for a request that
\* was not forwarded to the upstream; a request that was forwarded is
\* recorded as ALLOW, whatever status the upstream answers.
C35_ForwardedIsAllow ==
    [][\A t \in Threads :
         /\ Records(t) =>
              /\ logArgs'[t].decision = "DENY" => ~out[t].forwarded
              /\ out[t].forwarded => logArgs'[t].decision = "ALLOW"
         /\ (WriteSucceeds(t) /\ Len(auditFile') = Len(auditFile) + 1) =>
              /\ auditFile'[Len(auditFile')].decision = "DENY" => ~out[t].forwarded
              /\ out[t].forwarded => auditFile'[Len(auditFile')].decision = "ALLOW"]_vars

\* number of entries with the given decision that this process appended
Appended(decision) ==
    Cardinality({i \in 1..Len(auditFile) :
                    auditFile[i].kind = "entry" /\ auditFile[i].decision = decision})

\* no request is between its arrival and the return of its Log call
Quiet == \A t \in Threads : pc[t] \in {"idle", "done"}

\* C37: under any interleaving of requests no counter increment is lost and
\* no counter decreases: allow + deny is the number of requests counted so
\* far and at least the number of entries appended by this process, and once
\* every request in flight has completed without a write failure the allow
\* counter is the number of ALLOW entries and the deny counter the number of
\* DENY entries appended by this process.
C37_CountersMatchEntries ==
    /\ [](/\ allowCount + denyCount = logCalls
          /\ allowCount + denyCount >= Appended("ALLOW") + Appended("DENY")
          /\ (Quiet /\ failures = 0) =>
                /\ allowCount = Appended("ALLOW")
                /\ denyCount = Appended("DENY"))
    /\ [][/\ allowCount' >= allowCount
          /\ denyCount' >= denyCount
          /\ \A t \in Threads : Records(t) =>
                allowCount' + denyCount' = allowCount + denyCount + 1]_vars

\* two requests answered 400 or above were served by two threads and both
\* have completed without a write failure: two DENY entries, deny counter 2
C37_Witness ==
    /\ Quiet /\ failures = 0
    /\ \A t \in Threads : pc[t] = "done" /\ out[t].status >= 400
    /\ denyCount = 2 /\ allowCount = 0
    /\ Appended("DENY") = 2

==========================================================================
